---- MODULE Spec2Model ----
(***************************************************************************)
(* State-machine model of the FSM demonstration repository.                *)
(*                                                                         *)
(* Every script of the repository is a program of its own (pnpm run ...).  *)
(* The variable `running` holds the programs that were started in the      *)
(* behaviour under consideration; an action of a program is enabled only   *)
(* while that program is running.  Each specification below starts one     *)
(* program, or, for the comparisons of the three order workflows and of    *)
(* the three chatbots, the programs that are compared.                     *)
(*                                                                         *)
(* Math.random() and the result of an LLM / fetch call are read from       *)
(* `outcomes`, an arbitrary sequence of booleans fixed at the start: the   *)
(* k-th call of a program succeeds iff outcomes[k].  The order program     *)
(* that retries from outside the machine is modelled with its delays,      *)
(* because the order of its timers decides how often it retries; in the    *)
(* other programs a timer that is armed may expire at any later moment.    *)
(***************************************************************************)
EXTENDS Integers, Sequences, FiniteSets, TLC

VARIABLES
    running,        \* the programs started in this behaviour
    outcomes,       \* outcome of the k-th random draw / asynchronous call
    toggle,         \* ToggleFSM instance and the driver's observations
    trafficLight,   \* TrafficLightFSM instance and the driver's observations
    orderActor,     \* actor of orderMachine (the version with retryCount)
    mastraOrder,    \* run of the Mastra orderWorkflow
    langgraphOrder, \* run of the LangGraph order graph
    fetchActor,     \* actor of fetchMachine
    externalOrder,  \* the order program that retries from outside the machine
    script,         \* the messages the driver of a chat program sends
    chatActor,      \* actor of chatMachine (llm-chat)
    chatbotActor,   \* actor of chatbotMachine
    mastraChat,     \* the Mastra chatbot
    langgraphChat,  \* the LangGraph chatbot
    game,           \* the game program: its actor and its save file
    playerActor,    \* actor of musicPlayerMachine
    toggleActor,    \* actor of toggleMachine and what its subscriber printed
    counterActor,   \* actor of counterMachine and what its subscriber printed
    formActor,      \* actor of formMachine
    orderClock,     \* time and pending timers of the order script (retryCount version)
    chatbotClock,   \* time and pending timers of runXStateChatbot
    fetchClock      \* time and pending timers of the fetch script

basicVars == <<toggle, trafficLight>>
orderVars == <<orderActor, mastraOrder, langgraphOrder>>
retryVars == <<fetchActor, externalOrder>>
staticVars == <<basicVars, orderVars, retryVars>>
chatbotVars == <<chatbotActor, mastraChat, langgraphChat>>
chatVars == <<script, chatActor, chatbotVars>>
exampleVars == <<game, playerActor, toggleActor, counterActor, formActor>>
demoVars == <<orderClock, chatbotClock, fetchClock>>
vars == <<running, outcomes, staticVars, chatVars, exampleVars, demoVars>>

(***************************************************************************)
(* Bounds of the model                                                     *)
(***************************************************************************)
\* events handed to a hand-written FSM in one run
MaxEvents == 6
\* random draws / asynchronous calls whose outcome is fixed at the start
MaxOutcomes == 5
\* events sent to the actors of the game program in one run
MaxGameEvents == 5
\* events sent to an actor of the other example programs in one run
MaxSent == 6

(***************************************************************************)
(* 01-basic-fsm: ToggleFSM                                                 *)
(***************************************************************************)
ToggleState == {"ON", "OFF"}

\* 'TOGGLE' is the only event of the type; any other string takes the else
\* branch of transition() at run time.
ToggleEvents == {"TOGGLE", "NEXT"}

\* a transition() that never switches back off
ToggleFSMTransitionStuck(currentState, event) ==
    IF event = "TOGGLE" THEN "ON" ELSE currentState

\* ToggleFSM.transition: the new currentState
ToggleFSMTransition(currentState, event) ==
    IF event = "TOGGLE"
    THEN (IF currentState = "OFF" THEN "ON" ELSE "OFF")
    ELSE currentState

\* new ToggleFSM(initialState)
ToggleInit ==
    toggle \in { [ currentState |-> s, initialState |-> s,
                   events |-> <<>>, observed |-> <<>> ] : s \in ToggleState }

\* the value the variable keeps while the program is not running
ToggleIdle ==
    toggle = [ currentState |-> "OFF", initialState |-> "OFF",
               events |-> <<>>, observed |-> <<>> ]

\* toggle.transition(event); the driver then reads getState()
ToggleStep ==
    /\ "simple-toggle" \in running
    /\ Len(toggle.events) < MaxEvents
    /\ \E event \in ToggleEvents :
         LET next == ToggleFSMTransition(toggle.currentState, event)
         IN  toggle' = [ toggle EXCEPT !.currentState = next,
                                       !.events = Append(@, event),
                                       !.observed = Append(@, next) ]
    /\ UNCHANGED <<running, outcomes, demoVars, exampleVars, chatVars, trafficLight, orderVars, retryVars>>

(***************************************************************************)
(* 01-basic-fsm: TrafficLightFSM                                           *)
(***************************************************************************)
TrafficState == {"RED", "YELLOW", "GREEN"}

TrafficEvents == {"NEXT", "TOGGLE"}

\* a transition table with the GREEN row mistyped
TrafficTransitionsSkip(state) ==
    CASE state = "RED"    -> "GREEN"
      [] state = "GREEN"  -> "RED"
      [] state = "YELLOW" -> "RED"

\* this.transitions, the transition table of the constructor
TrafficTransitions(state) ==
    CASE state = "RED"    -> "GREEN"
      [] state = "GREEN"  -> "YELLOW"
      [] state = "YELLOW" -> "RED"

\* a transition() that takes every event for NEXT
TrafficLightFSMTransitionAny(currentState, event) == TrafficTransitions(currentState)

\* TrafficLightFSM.transition: the new currentState
TrafficLightFSMTransition(currentState, event) ==
    IF event = "NEXT" THEN TrafficTransitions(currentState) ELSE currentState

\* new TrafficLightFSM(initialState)
TrafficInit ==
    trafficLight \in { [ currentState |-> s, initialState |-> s,
                         events |-> <<>>, observed |-> <<>> ] : s \in TrafficState }

TrafficIdle ==
    trafficLight = [ currentState |-> "RED", initialState |-> "RED",
                     events |-> <<>>, observed |-> <<>> ]

\* trafficLight.transition(event); the driver then reads getState()
TrafficStep ==
    /\ "traffic-light" \in running
    /\ Len(trafficLight.events) < MaxEvents
    /\ \E event \in TrafficEvents :
         LET next == TrafficLightFSMTransition(trafficLight.currentState, event)
         IN  trafficLight' = [ trafficLight EXCEPT !.currentState = next,
                                                   !.events = Append(@, event),
                                                   !.observed = Append(@, next) ]
    /\ UNCHANGED <<running, outcomes, demoVars, exampleVars, chatVars, toggle, orderVars, retryVars>>

(***************************************************************************)
(* 03-workflow-comparison: orderMachine (XState, the version with          *)
(* retryCount) and its actor                                               *)
(*                                                                         *)
(* The actor is the record [value, context, status, timer, notified,       *)
(* dropped, attempts]: value and context are those of the snapshot         *)
(* (orderId, items and total never change and are left out), status is     *)
(* 'active' until a final state is reached ('done') or stop() is called    *)
(* ('stopped'), notified and dropped are those of ActorReceive, timer      *)
(* names the state whose delayed (after) transition is pending ('none' if  *)
(* none is), and attempts counts the entries into processing_payment.  A   *)
(* pending delayed transition is taken at some later moment.               *)
(***************************************************************************)
OrderEvent ==
    { "CONFIRM_ORDER", "PROCESS_PAYMENT", "PAYMENT_SUCCESS", "PAYMENT_FAILED",
      "RETRY_PAYMENT", "SHIP_ORDER", "DELIVER_ORDER", "CANCEL" }

MAX_PAYMENT_RETRIES == 3

\* an actor that goes on taking events after it has stopped or finished
ActorReceiveAlways(actor, next) ==
    [next EXCEPT !.notified = 1 - actor.notified]

\* what an actor created by createActor does with an event handed to it (by
\* send, by a delayed transition or by an invoked promise) when `next` is
\* the snapshot its machine computes for the event: an actor that was
\* stopped or has reached a final state drops the event; a running actor
\* takes the snapshot and calls its subscribers.  notified is the number
\* of calls of a subscriber, modulo 2; dropped says that an event was
\* dropped.
ActorReceive(actor, next) ==
    IF actor.status = "active"
    THEN [next EXCEPT !.notified = 1 - actor.notified]
    ELSE [actor EXCEPT !.dropped = TRUE]

\* the states of orderMachine that declare a delayed transition
OrderDelayed == {"processing_payment", "payment_failed", "shipping"}

\* states declared type: 'final'
OrderFinal == {"delivered", "canceled"}

\* a machine whose processing_payment has no entry action
OrderEntryPaymentSilent(value, context) ==
    CASE value = "shipping"           -> [context EXCEPT !.orderStatus = "shipping"]
      [] value = "canceled"           -> [context EXCEPT !.orderStatus = "canceled"]
      [] OTHER                        -> context

\* the entry actions of a state that assign to the context
OrderEntry(value, context) ==
    CASE value = "processing_payment" -> [context EXCEPT !.orderStatus = "processing_payment"]
      [] value = "shipping"           -> [context EXCEPT !.orderStatus = "shipping"]
      [] value = "canceled"           -> [context EXCEPT !.orderStatus = "canceled"]
      [] OTHER                        -> context

\* the actor after a transition to `target` whose own actions left `context`
OrderGoto(actor, target, context) ==
    [ actor EXCEPT !.value = target,
                   !.context = OrderEntry(target, context),
                   !.status = IF target \in OrderFinal THEN "done" ELSE "active",
                   !.timer = IF target \in OrderDelayed THEN target ELSE "none",
                   !.attempts = IF target = "processing_payment" THEN @ + 1 ELSE @ ]

\* the `on` transitions of orderMachine; an event no transition matches
\* leaves the snapshot as it is
OrderOn(actor, event) ==
    CASE actor.value = "pending" /\ event = "CONFIRM_ORDER"
           -> OrderGoto(actor, "confirmed", actor.context)
      [] actor.value = "confirmed" /\ event = "PROCESS_PAYMENT"
           -> OrderGoto(actor, "processing_payment", actor.context)
      [] actor.value = "confirmed" /\ event = "CANCEL"
           -> OrderGoto(actor, "canceled", actor.context)
      [] actor.value = "paid" /\ event = "SHIP_ORDER"
           -> OrderGoto(actor, "shipping", actor.context)
      [] OTHER -> actor

\* a payment success that keeps the retry counter
OrderAfterPaymentDelayNoReset(actor, success) ==
    IF success
    THEN OrderGoto(actor, "paid", [actor.context EXCEPT !.orderStatus = "paid"])
    ELSE OrderGoto(actor, "payment_failed",
                   [actor.context EXCEPT !.retryCount = @ + 1])

\* processing_payment.after[PAYMENT_DELAY_MS]; success is the value of the
\* first guard, Math.random() < PAYMENT_SUCCESS_RATE
OrderAfterPaymentDelay(actor, success) ==
    IF success
    THEN OrderGoto(actor, "paid",
                   [actor.context EXCEPT !.orderStatus = "paid", !.retryCount = 0])
    ELSE OrderGoto(actor, "payment_failed",
                   [actor.context EXCEPT !.retryCount = @ + 1])

\* a retry guard that lets the retry counter reach the maximum and go on
OrderAfterRetryDelayInclusive(actor) ==
    IF actor.context.retryCount <= MAX_PAYMENT_RETRIES
    THEN OrderGoto(actor, "processing_payment", actor.context)
    ELSE OrderGoto(actor, "canceled", actor.context)

\* payment_failed.after[RETRY_EVENT_DELAY_MS]
OrderAfterRetryDelay(actor) ==
    IF actor.context.retryCount < MAX_PAYMENT_RETRIES
    THEN OrderGoto(actor, "processing_payment", actor.context)
    ELSE OrderGoto(actor, "canceled", actor.context)

\* shipping.after[SHIPPING_DELAY_MS]
OrderAfterShippingDelay(actor) ==
    OrderGoto(actor, "delivered", [actor.context EXCEPT !.orderStatus = "delivered"])

\* createActor(orderMachine) and start()
OrderActorInit ==
    [ value |-> "pending",
      context |-> [orderStatus |-> "pending", retryCount |-> 0],
      status |-> "active",
      timer |-> "none",
      notified |-> 1,
      dropped |-> FALSE,
      attempts |-> 0 ]

\* orderActor.send(event), for any event of the OrderEvent type
OrderSend ==
    /\ "xstate-order" \in running
    /\ \E event \in OrderEvent :
         orderActor' = ActorReceive(orderActor, OrderOn(orderActor, event))
    /\ UNCHANGED <<running, outcomes, demoVars, exampleVars, chatVars, basicVars, retryVars, mastraOrder, langgraphOrder>>

\* the payment timer of processing_payment expires
OrderPaymentTimer ==
    /\ "xstate-order" \in running
    /\ orderActor.timer = "processing_payment"
    /\ orderActor.attempts <= Len(outcomes)
    /\ orderActor' =
         ActorReceive(orderActor,
                      OrderAfterPaymentDelay(orderActor, outcomes[orderActor.attempts]))
    /\ UNCHANGED <<running, outcomes, demoVars, exampleVars, chatVars, basicVars, retryVars, mastraOrder, langgraphOrder>>

\* the retry timer of payment_failed expires
OrderRetryTimer ==
    /\ "xstate-order" \in running
    /\ orderActor.timer = "payment_failed"
    /\ orderActor' = ActorReceive(orderActor, OrderAfterRetryDelay(orderActor))
    /\ UNCHANGED <<running, outcomes, demoVars, exampleVars, chatVars, basicVars, retryVars, mastraOrder, langgraphOrder>>

\* the delivery timer of shipping expires
OrderShippingTimer ==
    /\ "xstate-order" \in running
    /\ orderActor.timer = "shipping"
    /\ orderActor' = ActorReceive(orderActor, OrderAfterShippingDelay(orderActor))
    /\ UNCHANGED <<running, outcomes, demoVars, exampleVars, chatVars, basicVars, retryVars, mastraOrder, langgraphOrder>>

\* orderActor.stop(): the snapshot stays, the pending delayed transition is
\* cancelled
OrderStop ==
    /\ "xstate-order" \in running
    /\ orderActor.status = "active"
    /\ orderActor' = [orderActor EXCEPT !.status = "stopped", !.timer = "none"]
    /\ UNCHANGED <<running, outcomes, demoVars, exampleVars, chatVars, basicVars, retryVars, mastraOrder, langgraphOrder>>

OrderActorNext ==
    \/ OrderSend
    \/ OrderPaymentTimer
    \/ OrderRetryTimer
    \/ OrderShippingTimer
    \/ OrderStop

(***************************************************************************)
(* 03-workflow-comparison: the Mastra order workflow                       *)
(*                                                                         *)
(* A run is the record [pc, state, attempts]: pc names the step that runs  *)
(* next ('process-payment:delay' while process-payment awaits its delay),  *)
(* state is the OrderState handed from step to step, attempts counts the   *)
(* payment attempts.                                                       *)
(***************************************************************************)
\* a loop condition that admits one more attempt
MastraLoopConditionInclusive(state) ==
    state.orderStatus # "paid" /\ state.retryCount <= MAX_PAYMENT_RETRIES

\* the condition of the while loop of process-payment
MastraLoopCondition(state) ==
    state.orderStatus # "paid" /\ state.retryCount < MAX_PAYMENT_RETRIES

\* process-payment after its loop: cancel unless paid
MastraAfterLoop(state) ==
    IF state.orderStatus # "paid"
    THEN [state EXCEPT !.orderStatus = "canceled"]
    ELSE state

\* a ship-order that ships whatever it is handed
MastraShipOrderExecuteAny(state) ==
    [state EXCEPT !.orderStatus = "shipping"]

\* ship-order
MastraShipOrderExecute(state) ==
    IF state.orderStatus # "paid"
    THEN state
    ELSE [state EXCEPT !.orderStatus = "shipping"]

\* deliver-order
MastraDeliverOrderExecute(state) ==
    IF state.orderStatus # "shipping"
    THEN state
    ELSE [state EXCEPT !.orderStatus = "delivered"]

\* orderWorkflow.createRunAsync() and run.start({ inputData: {} })
MastraOrderInit ==
    [ pc |-> "create-order",
      state |-> [orderStatus |-> "undefined", retryCount |-> 0],
      attempts |-> 0 ]

\* create-order
MastraCreateOrder ==
    /\ "mastra-order" \in running
    /\ mastraOrder.pc = "create-order"
    /\ mastraOrder' = [ mastraOrder EXCEPT
                          !.pc = "confirm-order",
                          !.state = [orderStatus |-> "pending", retryCount |-> 0] ]
    /\ UNCHANGED <<running, outcomes, demoVars, exampleVars, chatVars, basicVars, retryVars, orderActor, langgraphOrder>>

\* confirm-order hands its input on
MastraConfirmOrder ==
    /\ "mastra-order" \in running
    /\ mastraOrder.pc = "confirm-order"
    /\ mastraOrder' = [mastraOrder EXCEPT !.pc = "process-payment"]
    /\ UNCHANGED <<running, outcomes, demoVars, exampleVars, chatVars, basicVars, retryVars, orderActor, langgraphOrder>>

\* process-payment from its start to its first delay, or to its return when
\* the loop is not entered
MastraProcessPaymentStart ==
    /\ "mastra-order" \in running
    /\ mastraOrder.pc = "process-payment"
    /\ mastraOrder' =
         IF MastraLoopCondition(mastraOrder.state)
         THEN [ mastraOrder EXCEPT !.pc = "process-payment:delay",
                                   !.state.orderStatus = "processing_payment" ]
         ELSE [ mastraOrder EXCEPT !.pc = "ship-order",
                                   !.state = MastraAfterLoop(@) ]
    /\ UNCHANGED <<running, outcomes, demoVars, exampleVars, chatVars, basicVars, retryVars, orderActor, langgraphOrder>>

\* process-payment from the end of a delay to the next delay or the return
MastraProcessPaymentResume ==
    /\ "mastra-order" \in running
    /\ mastraOrder.pc = "process-payment:delay"
    /\ mastraOrder.attempts < Len(outcomes)
    /\ LET attempt == mastraOrder.state.retryCount + 1
           success == outcomes[mastraOrder.attempts + 1]
           after   == IF success
                      THEN [mastraOrder.state EXCEPT !.orderStatus = "paid"]
                      ELSE [mastraOrder.state EXCEPT !.retryCount = attempt]
       IN  mastraOrder' =
             IF ~success /\ MastraLoopCondition(after)
             THEN [ mastraOrder EXCEPT
                      !.attempts = @ + 1,
                      !.state = [after EXCEPT !.orderStatus = "processing_payment"] ]
             ELSE [ mastraOrder EXCEPT
                      !.attempts = @ + 1,
                      !.pc = "ship-order",
                      !.state = MastraAfterLoop(after) ]
    /\ UNCHANGED <<running, outcomes, demoVars, exampleVars, chatVars, basicVars, retryVars, orderActor, langgraphOrder>>

\* ship-order
MastraShipOrder ==
    /\ "mastra-order" \in running
    /\ mastraOrder.pc = "ship-order"
    /\ mastraOrder' = [ mastraOrder EXCEPT !.pc = "deliver-order",
                                           !.state = MastraShipOrderExecute(@) ]
    /\ UNCHANGED <<running, outcomes, demoVars, exampleVars, chatVars, basicVars, retryVars, orderActor, langgraphOrder>>

\* deliver-order; its output is the result of the run
MastraDeliverOrder ==
    /\ "mastra-order" \in running
    /\ mastraOrder.pc = "deliver-order"
    /\ mastraOrder' = [ mastraOrder EXCEPT !.pc = "done",
                                           !.state = MastraDeliverOrderExecute(@) ]
    /\ UNCHANGED <<running, outcomes, demoVars, exampleVars, chatVars, basicVars, retryVars, orderActor, langgraphOrder>>

MastraOrderNext ==
    \/ MastraCreateOrder
    \/ MastraConfirmOrder
    \/ MastraProcessPaymentStart
    \/ MastraProcessPaymentResume
    \/ MastraShipOrder
    \/ MastraDeliverOrder

(***************************************************************************)
(* 03-workflow-comparison: the LangGraph order graph                       *)
(*                                                                         *)
(* A run is the record [node, state, attempts]: node is the node that runs *)
(* next ('__end__' when the graph has ended), state is the graph state     *)
(* (messages holds one tag per message appended).                          *)
(***************************************************************************)
\* the conditional edge with the retry test one attempt too generous
ShouldRetryPaymentInclusive(state) ==
    IF state.orderStatus = "pending" /\ state.retryCount <= MAX_PAYMENT_RETRIES
    THEN "process_payment"
    ELSE IF state.orderStatus = "pending"
         THEN "__end__"
         ELSE "ship_order"

\* the conditional edge after process_payment
ShouldRetryPayment(state) ==
    IF state.orderStatus = "pending" /\ state.retryCount < MAX_PAYMENT_RETRIES
    THEN "process_payment"
    ELSE IF state.orderStatus = "pending" /\ state.retryCount >= MAX_PAYMENT_RETRIES
         THEN "__end__"
         ELSE "ship_order"

\* processPaymentNode: the partial update merged into the state
ProcessPaymentNode(state, success) ==
    IF success
    THEN [ state EXCEPT !.orderStatus = "paid",
                        !.messages = Append(@, "paid") ]
    ELSE [ state EXCEPT !.orderStatus = "pending",
                        !.retryCount = @ + 1,
                        !.messages = Append(@, "payment failed") ]

\* app.invoke(initialState)
LanggraphOrderInit ==
    [ node |-> "create_order",
      state |-> [orderStatus |-> "pending", retryCount |-> 0, messages |-> <<>>],
      attempts |-> 0 ]

\* create_order
LgCreateOrder ==
    /\ "langgraph-order" \in running
    /\ langgraphOrder.node = "create_order"
    /\ langgraphOrder' =
         [ langgraphOrder EXCEPT
             !.node = "confirm_order",
             !.state = [ @ EXCEPT !.orderStatus = "pending",
                                  !.retryCount = 0,
                                  !.messages = Append(@, "created") ] ]
    /\ UNCHANGED <<running, outcomes, demoVars, exampleVars, chatVars, basicVars, retryVars, orderActor, mastraOrder>>

\* confirm_order
LgConfirmOrder ==
    /\ "langgraph-order" \in running
    /\ langgraphOrder.node = "confirm_order"
    /\ langgraphOrder' =
         [ langgraphOrder EXCEPT
             !.node = "process_payment",
             !.state.messages = Append(@, "confirmed") ]
    /\ UNCHANGED <<running, outcomes, demoVars, exampleVars, chatVars, basicVars, retryVars, orderActor, mastraOrder>>

\* process_payment, then the conditional edge shouldRetryPayment
LgProcessPayment ==
    /\ "langgraph-order" \in running
    /\ langgraphOrder.node = "process_payment"
    /\ langgraphOrder.attempts < Len(outcomes)
    /\ LET after == ProcessPaymentNode(langgraphOrder.state,
                                       outcomes[langgraphOrder.attempts + 1])
       IN  langgraphOrder' =
             [ langgraphOrder EXCEPT !.node = ShouldRetryPayment(after),
                                     !.state = after,
                                     !.attempts = @ + 1 ]
    /\ UNCHANGED <<running, outcomes, demoVars, exampleVars, chatVars, basicVars, retryVars, orderActor, mastraOrder>>

\* ship_order
LgShipOrder ==
    /\ "langgraph-order" \in running
    /\ langgraphOrder.node = "ship_order"
    /\ langgraphOrder' =
         [ langgraphOrder EXCEPT
             !.node = "deliver_order",
             !.state = [ @ EXCEPT !.orderStatus = "shipping",
                                  !.messages = Append(@, "shipping") ] ]
    /\ UNCHANGED <<running, outcomes, demoVars, exampleVars, chatVars, basicVars, retryVars, orderActor, mastraOrder>>

\* deliver_order
LgDeliverOrder ==
    /\ "langgraph-order" \in running
    /\ langgraphOrder.node = "deliver_order"
    /\ langgraphOrder' =
         [ langgraphOrder EXCEPT
             !.node = "__end__",
             !.state = [ @ EXCEPT !.orderStatus = "delivered",
                                  !.messages = Append(@, "delivered") ] ]
    /\ UNCHANGED <<running, outcomes, demoVars, exampleVars, chatVars, basicVars, retryVars, orderActor, mastraOrder>>

LanggraphOrderNext ==
    \/ LgCreateOrder
    \/ LgConfirmOrder
    \/ LgProcessPayment
    \/ LgShipOrder
    \/ LgDeliverOrder

(***************************************************************************)
(* 02-xstate-examples: fetchMachine and its actor                          *)
(*                                                                         *)
(* The actor is the record [value, context, status, calls, stopScheduled]: *)
(* calls counts the invocations of fetchUser (one per entry into loading), *)
(* stopScheduled says that the subscriber has set the timer that stops the *)
(* actor.  data is 'null' or the user fetched, error 'null' or a message.  *)
(***************************************************************************)
FetchEvent == {"FETCH", "RETRY"}

MAX_RETRIES == 3

\* the actor after a transition to `target` whose actions left `context`;
\* the subscriber sets the stop timer when it is notified of success
FetchGoto(actor, target, context) ==
    [ actor EXCEPT !.value = target,
                   !.context = context,
                   !.calls = IF target = "loading" THEN @ + 1 ELSE @,
                   !.stopScheduled = @ \/ target = "success" ]

\* a failure.on.RETRY whose two transitions are listed the other way round
FetchOnFallbackFirst(actor, event) ==
    CASE actor.value = "idle" /\ event = "FETCH"
           -> FetchGoto(actor, "loading", actor.context)
      [] actor.value = "success" /\ event = "FETCH"
           -> FetchGoto(actor, "loading", actor.context)
      [] actor.value = "failure" /\ event = "RETRY"
           -> FetchGoto(actor, "error", actor.context)
      [] actor.value = "failure" /\ event = "FETCH"
           -> FetchGoto(actor, "loading", actor.context)
      [] actor.value = "error" /\ event = "FETCH"
           -> FetchGoto(actor, "loading",
                        [actor.context EXCEPT !.retryCount = 0, !.error = "null"])
      [] OTHER -> actor

\* a machine whose loading state takes FETCH and invokes fetchUser again
FetchOnReentrant(actor, event) ==
    CASE actor.value \in {"idle", "success", "loading"} /\ event = "FETCH"
           -> FetchGoto(actor, "loading", actor.context)
      [] actor.value = "failure" /\ event = "RETRY"
           -> IF actor.context.retryCount < MAX_RETRIES
              THEN FetchGoto(actor, "loading", actor.context)
              ELSE FetchGoto(actor, "error", actor.context)
      [] actor.value = "failure" /\ event = "FETCH"
           -> FetchGoto(actor, "loading", actor.context)
      [] actor.value = "error" /\ event = "FETCH"
           -> FetchGoto(actor, "loading",
                        [actor.context EXCEPT !.retryCount = 0, !.error = "null"])
      [] OTHER -> actor

\* the `on` transitions of fetchMachine
FetchOn(actor, event) ==
    CASE actor.value = "idle" /\ event = "FETCH"
           -> FetchGoto(actor, "loading", actor.context)
      [] actor.value = "success" /\ event = "FETCH"
           -> FetchGoto(actor, "loading", actor.context)
      [] actor.value = "failure" /\ event = "RETRY"
           -> IF actor.context.retryCount < MAX_RETRIES
              THEN FetchGoto(actor, "loading", actor.context)
              ELSE FetchGoto(actor, "error", actor.context)
      [] actor.value = "failure" /\ event = "FETCH"
           -> FetchGoto(actor, "loading", actor.context)
      [] actor.value = "error" /\ event = "FETCH"
           -> FetchGoto(actor, "loading",
                        [actor.context EXCEPT !.retryCount = 0, !.error = "null"])
      [] OTHER -> actor

\* loading.invoke.onDone
FetchOnDone(actor) ==
    FetchGoto(actor, "success",
              [data |-> "User 1", error |-> "null", retryCount |-> 0])

\* loading.invoke.onError
FetchOnError(actor) ==
    FetchGoto(actor, "failure",
              [actor.context EXCEPT !.error = "Network error",
                                    !.retryCount = @ + 1])

\* createActor(fetchMachine) and start()
FetchActorInit ==
    [ value |-> "idle",
      context |-> [data |-> "null", error |-> "null", retryCount |-> 0],
      status |-> "active",
      calls |-> 0,
      stopScheduled |-> FALSE ]

\* fetchActor.send(event); fetchUser is called at most Len(outcomes) times
FetchSend ==
    /\ "fetch-example" \in running
    /\ fetchActor.status = "active"
    /\ \E event \in FetchEvent :
         /\ FetchOn(fetchActor, event).calls <= Len(outcomes)
         /\ fetchActor' = FetchOn(fetchActor, event)
    /\ UNCHANGED <<running, outcomes, demoVars, exampleVars, chatVars, basicVars, orderVars, externalOrder>>

\* the promise of fetchUser settles
FetchSettle ==
    /\ "fetch-example" \in running
    /\ fetchActor.status = "active"
    /\ fetchActor.value = "loading"
    /\ fetchActor' = IF outcomes[fetchActor.calls]
                     THEN FetchOnDone(fetchActor)
                     ELSE FetchOnError(fetchActor)
    /\ UNCHANGED <<running, outcomes, demoVars, exampleVars, chatVars, basicVars, orderVars, externalOrder>>

\* the timer set after success calls fetchActor.stop()
FetchStop ==
    /\ "fetch-example" \in running
    /\ fetchActor.status = "active"
    /\ fetchActor.stopScheduled
    /\ fetchActor' = [fetchActor EXCEPT !.status = "stopped"]
    /\ UNCHANGED <<running, outcomes, demoVars, exampleVars, chatVars, basicVars, orderVars, externalOrder>>

FetchActorNext == FetchSend \/ FetchSettle \/ FetchStop

(***************************************************************************)
(* 03-workflow-comparison: the XState order program whose retry is sent    *)
(* from outside the machine                                                *)
(*                                                                         *)
(* The program is the record [value, context, status, now, timers,         *)
(* attempts, retries]: value, context and status are those of the actor's  *)
(* snapshot, now is the time in ms since the script started, timers the    *)
(* set of pending timers [due, kind] (the setTimeout calls of the script   *)
(* and the delayed transitions of the machine).  Timers run in the order   *)
(* of their due times.  attempts counts the entries into                   *)
(* processing_payment, retries those made from payment_failed.             *)
(***************************************************************************)
PAYMENT_DELAY_MS == 1000

SHIPPING_DELAY_MS == 2000

CONFIRM_EVENT_DELAY_MS == 500

PROCESS_PAYMENT_EVENT_DELAY_MS == 1000

SHIP_EVENT_DELAY_MS == 1000

RETRY_EVENT_DELAY_MS == 1500

\* a script that stops the actor twice as late
WorkflowDoneDelayDoubled == 2 * 8000

WORKFLOW_DONE_DELAY_MS == 8000

ExternalFinal == {"delivered", "cancelled"}

\* the `on` transitions of the machine: the value after `event`
ExternalOn(value, event) ==
    CASE value = "draft" /\ event = "CONFIRM_ORDER"             -> "confirmed"
      [] value = "confirmed" /\ event = "PROCESS_PAYMENT"       -> "processing_payment"
      [] value = "confirmed" /\ event = "CANCEL"                -> "cancelled"
      [] value = "payment_success" /\ event = "SHIP_ORDER"      -> "shipping"
      [] value = "payment_failed" /\ event = "RETRY_PAYMENT"    -> "processing_payment"
      [] value = "payment_failed" /\ event = "CANCEL"           -> "cancelled"
      [] OTHER                                                  -> value

\* the delayed transitions a state starts when it is entered
ExternalAfter(value, now) ==
    CASE value = "processing_payment"
           -> {[due |-> now + PAYMENT_DELAY_MS, kind |-> "after:payment"]}
      [] value = "shipping"
           -> {[due |-> now + SHIPPING_DELAY_MS, kind |-> "after:shipping"]}
      [] OTHER -> {}

\* the second subscriber, called with every snapshot the actor emits
ExternalSubscriber(value, now) ==
    CASE value = "payment_success"
           -> {[due |-> now + SHIP_EVENT_DELAY_MS, kind |-> "SHIP_ORDER"]}
      [] value = "payment_failed"
           -> {[due |-> now + RETRY_EVENT_DELAY_MS, kind |-> "RETRY_PAYMENT"]}
      [] OTHER -> {}

\* the program after timer t ran and left the actor at `value` with `context`
ExternalUpdate(program, t, value, context) ==
    [ program EXCEPT
        !.value = value,
        !.context = context,
        !.status = IF value \in ExternalFinal THEN "done" ELSE "active",
        !.now = t.due,
        !.timers = (@ \ {t})
                     \cup (IF value # program.value
                           THEN ExternalAfter(value, t.due) ELSE {})
                     \cup ExternalSubscriber(value, t.due),
        !.attempts = IF value # program.value /\ value = "processing_payment"
                     THEN @ + 1 ELSE @,
        !.retries = IF program.value = "payment_failed" /\ value = "processing_payment"
                    THEN @ + 1 ELSE @ ]

\* createActor, both subscribe calls, start() and the three setTimeout calls
ExternalOrderInit ==
    [ value |-> "draft",
      context |-> [paymentStatus |-> "pending", shippingStatus |-> "pending"],
      status |-> "active",
      now |-> 0,
      timers |-> { [due |-> CONFIRM_EVENT_DELAY_MS, kind |-> "CONFIRM_ORDER"],
                   [due |-> PROCESS_PAYMENT_EVENT_DELAY_MS, kind |-> "PROCESS_PAYMENT"],
                   [due |-> WORKFLOW_DONE_DELAY_MS, kind |-> "stop"] },
      attempts |-> 0,
      retries |-> 0 ]

\* t is a pending timer that no other pending timer precedes
ExternalNextTimer(t) ==
    /\ "xstate-order-external" \in running
    /\ t \in externalOrder.timers
    /\ \A u \in externalOrder.timers : t.due <= u.due

\* a setTimeout callback of the script sends its event (a stopped or
\* finished actor drops it)
ExternalSendTimer ==
    /\ \E t \in externalOrder.timers :
         /\ ExternalNextTimer(t)
         /\ t.kind \in {"CONFIRM_ORDER", "PROCESS_PAYMENT", "SHIP_ORDER", "RETRY_PAYMENT"}
         /\ externalOrder' =
              IF externalOrder.status = "active"
              THEN ExternalUpdate(externalOrder, t,
                                  ExternalOn(externalOrder.value, t.kind),
                                  externalOrder.context)
              ELSE [externalOrder EXCEPT !.now = t.due, !.timers = @ \ {t}]
    /\ UNCHANGED <<running, outcomes, demoVars, exampleVars, chatVars, basicVars, orderVars, fetchActor>>

\* processing_payment.after[PAYMENT_DELAY_MS]
ExternalPaymentTimer ==
    /\ \E t \in externalOrder.timers :
         /\ ExternalNextTimer(t)
         /\ t.kind = "after:payment"
         /\ externalOrder.attempts <= Len(outcomes)
         /\ externalOrder' =
              IF outcomes[externalOrder.attempts]
              THEN ExternalUpdate(externalOrder, t, "payment_success",
                     [externalOrder.context EXCEPT !.paymentStatus = "completed"])
              ELSE ExternalUpdate(externalOrder, t, "payment_failed",
                     [externalOrder.context EXCEPT !.paymentStatus = "failed"])
    /\ UNCHANGED <<running, outcomes, demoVars, exampleVars, chatVars, basicVars, orderVars, fetchActor>>

\* shipping.after[SHIPPING_DELAY_MS]
ExternalShippingTimer ==
    /\ \E t \in externalOrder.timers :
         /\ ExternalNextTimer(t)
         /\ t.kind = "after:shipping"
         /\ externalOrder' =
              ExternalUpdate(externalOrder, t, "delivered",
                [externalOrder.context EXCEPT !.shippingStatus = "delivered"])
    /\ UNCHANGED <<running, outcomes, demoVars, exampleVars, chatVars, basicVars, orderVars, fetchActor>>

\* the last setTimeout callback calls orderActor.stop(), which also cancels
\* the delayed transitions of the machine
ExternalStopTimer ==
    /\ \E t \in externalOrder.timers :
         /\ ExternalNextTimer(t)
         /\ t.kind = "stop"
         /\ externalOrder' =
              [ externalOrder EXCEPT
                  !.now = t.due,
                  !.status = IF @ = "active" THEN "stopped" ELSE @,
                  !.timers = { u \in @ \ {t} :
                                 u.kind \notin {"after:payment", "after:shipping"} } ]
    /\ UNCHANGED <<running, outcomes, demoVars, exampleVars, chatVars, basicVars, orderVars, fetchActor>>

ExternalOrderNext ==
    \/ ExternalSendTimer
    \/ ExternalPaymentTimer
    \/ ExternalShippingTimer
    \/ ExternalStopTimer

(***************************************************************************)
(* Messages of the chat programs                                           *)
(*                                                                         *)
(* A message is a sequence of characters.  script is the sequence of       *)
(* messages the driver of a chat program sends, one after the other.       *)
(***************************************************************************)
Messages == { <<" ">>, <<"h", "i">>, <<" ", "h", "i">> }

Scripts == {<<m>> : m \in Messages} \cup {<<m, n>> : m \in Messages, n \in Messages}

RECURSIVE TrimStart(_)
TrimStart(s) == IF s # <<>> /\ Head(s) = " " THEN TrimStart(Tail(s)) ELSE s

RECURSIVE TrimEnd(_)
TrimEnd(s) ==
    IF s # <<>> /\ s[Len(s)] = " " THEN TrimEnd(SubSeq(s, 1, Len(s) - 1)) ELSE s

\* String.prototype.trim
Trim(s) == TrimEnd(TrimStart(s))

(***************************************************************************)
(* 02-xstate-examples: chatMachine (llm-chat) and its actor                *)
(*                                                                         *)
(* The actor is the record [value, context, status, timers, visits, stale, *)
(* inflight, notified, dropped, sent, llmCalls, calls, manual]: visits     *)
(* counts the entries into error, timers holds the visits whose delayed    *)
(* transition is pending, stale says that the delayed transition of one    *)
(* visit was taken during another, inflight that the promise of callLLM has*)
(* not settled; sent counts the messages of the script sent so far,        *)
(* llmCalls the invocations of callLLM, calls those made for the message in*)
(* context.message; manual says that a RETRY event was taken for it.       *)
(***************************************************************************)
\* a machine whose delayed transitions outlive the state that armed them
ChatGotoKeepTimers(actor, target, context) ==
    [ actor EXCEPT !.value = target,
                   !.context = context,
                   !.status = IF target = "failed" THEN "done" ELSE "active",
                   !.visits = IF target = "error" THEN @ + 1 ELSE @,
                   !.timers = IF target = "error" THEN @ \cup {actor.visits + 1} ELSE @,
                   !.inflight = (target = "calling_llm"),
                   !.llmCalls = IF target = "calling_llm" THEN @ + 1 ELSE @,
                   !.calls = IF target = "calling_llm" THEN @ + 1 ELSE @ ]

\* the actor after a transition to `target` whose actions left `context`:
\* the delayed transition of the state left is cancelled, that of error is
\* armed when error is entered
ChatGoto(actor, target, context) ==
    [ actor EXCEPT !.value = target,
                   !.context = context,
                   !.status = IF target = "failed" THEN "done" ELSE "active",
                   !.visits = IF target = "error" THEN @ + 1 ELSE @,
                   !.timers = IF target = "error" THEN {actor.visits + 1} ELSE {},
                   !.inflight = (target = "calling_llm"),
                   !.llmCalls = IF target = "calling_llm" THEN @ + 1 ELSE @,
                   !.calls = IF target = "calling_llm" THEN @ + 1 ELSE @ ]

\* the `on` transitions of chatMachine
ChatOn(actor, event) ==
    CASE actor.value = "idle" /\ event.type = "SEND_MESSAGE"
           -> ChatGoto([actor EXCEPT !.calls = 0, !.manual = FALSE], "calling_llm",
                       [ message |-> event.message, response |-> "null",
                         error |-> "null", retryCount |-> 0 ])
      [] actor.value = "success" /\ event.type = "SEND_MESSAGE"
           -> ChatGoto([actor EXCEPT !.calls = 0, !.manual = FALSE], "calling_llm",
                       [ actor.context EXCEPT !.message = event.message,
                                              !.response = "null",
                                              !.error = "null" ])
      [] actor.value = "error" /\ event.type = "RETRY"
           -> ChatGoto([actor EXCEPT !.manual = TRUE], "calling_llm",
                       [ actor.context EXCEPT !.retryCount = @ + 1,
                                              !.error = "null" ])
      [] OTHER -> actor

\* calling_llm.invoke.onDone
ChatOnDone(actor) ==
    ChatGoto(actor, "success", [actor.context EXCEPT !.response = "response"])

\* calling_llm.invoke.onError
ChatOnError(actor) ==
    ChatGoto(actor, "error", [actor.context EXCEPT !.error = "LLM API call failed"])

\* error.after[1500]
ChatAfterRetryDelay(actor) ==
    IF actor.context.retryCount < 3
    THEN ChatGoto(actor, "calling_llm",
                  [actor.context EXCEPT !.retryCount = @ + 1, !.error = "null"])
    ELSE ChatGoto(actor, "failed", actor.context)

\* the delayed event of visit t of error reaches the machine: error takes
\* it, whichever visit armed it; no other state has a transition for it
ChatAfter(actor, t) ==
    IF actor.value = "error"
    THEN ChatAfterRetryDelay([actor EXCEPT !.stale = @ \/ t # actor.visits])
    ELSE actor

\* createActor(chatMachine) and start()
ChatActorInit ==
    [ value |-> "idle",
      context |-> [ message |-> <<>>, response |-> "null",
                    error |-> "null", retryCount |-> 0 ],
      status |-> "active",
      timers |-> {},
      visits |-> 0,
      stale |-> FALSE,
      inflight |-> FALSE,
      notified |-> 1,
      dropped |-> FALSE,
      sent |-> 0,
      llmCalls |-> 0,
      calls |-> 0,
      manual |-> FALSE ]

\* the driver sends the next message of the script; callLLM is invoked at
\* most Len(outcomes) times
ChatSendMessage ==
    /\ "llm-chat" \in running
    /\ chatActor.sent < Len(script)
    /\ LET event == [type |-> "SEND_MESSAGE", message |-> script[chatActor.sent + 1]]
           actor == [chatActor EXCEPT !.sent = @ + 1]
           next  == ActorReceive(actor, ChatOn(actor, event))
       IN  /\ next.llmCalls <= Len(outcomes)
           /\ chatActor' = next
    /\ UNCHANGED <<running, outcomes, demoVars, exampleVars, script, staticVars, chatbotVars>>

\* chatActor.send({ type: 'RETRY' })
ChatSendRetry ==
    /\ "llm-chat" \in running
    /\ LET next == ActorReceive(chatActor, ChatOn(chatActor, [type |-> "RETRY"]))
       IN  /\ next.llmCalls <= Len(outcomes)
           /\ chatActor' = next
    /\ UNCHANGED <<running, outcomes, demoVars, exampleVars, script, staticVars, chatbotVars>>

\* the promise of callLLM settles
ChatSettle ==
    /\ "llm-chat" \in running
    /\ chatActor.inflight
    /\ LET actor == [chatActor EXCEPT !.inflight = FALSE]
       IN  chatActor' = ActorReceive(actor, IF outcomes[chatActor.llmCalls]
                                            THEN ChatOnDone(actor)
                                            ELSE ChatOnError(actor))
    /\ UNCHANGED <<running, outcomes, demoVars, exampleVars, script, staticVars, chatbotVars>>

\* a pending retry timer expires
ChatRetryTimer ==
    /\ "llm-chat" \in running
    /\ \E t \in chatActor.timers :
         LET actor == [chatActor EXCEPT !.timers = @ \ {t}]
             next  == ActorReceive(actor, ChatAfter(actor, t))
         IN  /\ next.llmCalls <= Len(outcomes)
             /\ chatActor' = next
    /\ UNCHANGED <<running, outcomes, demoVars, exampleVars, script, staticVars, chatbotVars>>

\* chatActor.stop(): the pending delayed transition is cancelled
ChatStop ==
    /\ "llm-chat" \in running
    /\ chatActor.status = "active"
    /\ chatActor' = [chatActor EXCEPT !.status = "stopped", !.timers = {}]
    /\ UNCHANGED <<running, outcomes, demoVars, exampleVars, script, staticVars, chatbotVars>>

ChatActorNext ==
    \/ ChatSendMessage
    \/ ChatSendRetry
    \/ ChatSettle
    \/ ChatRetryTimer
    \/ ChatStop

(***************************************************************************)
(* 03-workflow-comparison: chatbotMachine (XState) and its actor           *)
(*                                                                         *)
(* The actor is the record [value, context, status, timers, visits, stale, *)
(* inflight, notified, dropped, sent, accepted, llmCalls, calls, manual]:  *)
(* as for chatMachine; accepted counts the SEND_MESSAGE events the machine *)
(* has taken.  A history entry is a record [role, content].                *)
(***************************************************************************)
MAX_LLM_RETRIES == 3

\* a machine whose state failed is not final
ChatbotGotoNoFinal(actor, target, context) ==
    [ actor EXCEPT !.value = target,
                   !.context = context,
                   !.status = "active",
                   !.visits = IF target = "error" THEN @ + 1 ELSE @,
                   !.timers = IF target = "error" THEN {actor.visits + 1} ELSE {},
                   !.inflight = (target = "calling_llm"),
                   !.llmCalls = IF target = "calling_llm" THEN @ + 1 ELSE @,
                   !.calls = IF target = "calling_llm" THEN @ + 1 ELSE @ ]

\* the actor after a transition to `target` whose actions left `context`:
\* the delayed transition of the state left is cancelled, that of error is
\* armed when error is entered; failed is final
ChatbotGoto(actor, target, context) ==
    [ actor EXCEPT !.value = target,
                   !.context = context,
                   !.status = IF target = "failed" THEN "done" ELSE "active",
                   !.visits = IF target = "error" THEN @ + 1 ELSE @,
                   !.timers = IF target = "error" THEN {actor.visits + 1} ELSE {},
                   !.inflight = (target = "calling_llm"),
                   !.llmCalls = IF target = "calling_llm" THEN @ + 1 ELSE @,
                   !.calls = IF target = "calling_llm" THEN @ + 1 ELSE @ ]

\* a validating that lets every message through
ChatbotValidatingAll(actor, context) == ChatbotGoto(actor, "calling_llm", context)

\* validating: the always transitions, taken as soon as the state is entered
ChatbotValidating(actor, context) ==
    IF Len(Trim(context.userMessage)) = 0
    THEN ChatbotGoto(actor, "waiting_input", context)
    ELSE ChatbotGoto(actor, "calling_llm", context)

\* the context RESET assigns
ChatbotResetContext ==
    [ userMessage |-> <<>>, conversationHistory |-> <<>>,
      currentResponse |-> "null", error |-> "null", retryCount |-> 0 ]

\* the `on` transitions of chatbotMachine
ChatbotOn(actor, event) ==
    CASE actor.value = "waiting_input" /\ event.type = "SEND_MESSAGE"
           -> ChatbotValidating(
                [actor EXCEPT !.calls = 0, !.manual = FALSE, !.accepted = @ + 1],
                [ actor.context EXCEPT !.userMessage = event.message,
                                       !.error = "null",
                                       !.retryCount = 0 ])
      [] actor.value = "response_ready" /\ event.type = "SEND_MESSAGE"
           -> ChatbotValidating(
                [actor EXCEPT !.calls = 0, !.manual = FALSE, !.accepted = @ + 1],
                [ actor.context EXCEPT !.userMessage = event.message,
                                       !.currentResponse = "null",
                                       !.error = "null",
                                       !.retryCount = 0 ])
      [] actor.value = "response_ready" /\ event.type = "RESET"
           -> ChatbotGoto(actor, "waiting_input", ChatbotResetContext)
      [] actor.value = "error" /\ event.type = "RETRY"
           -> ChatbotGoto([actor EXCEPT !.manual = TRUE], "calling_llm",
                          [ actor.context EXCEPT !.retryCount = @ + 1,
                                                 !.error = "null" ])
      [] actor.value = "failed" /\ event.type = "RESET"
           -> ChatbotGoto(actor, "waiting_input", ChatbotResetContext)
      [] OTHER -> actor

\* calling_llm.invoke.onDone
ChatbotOnDone(actor) ==
    ChatbotGoto(actor, "response_ready",
      [ actor.context EXCEPT
          !.currentResponse = "response",
          !.conversationHistory =
             @ \o << [role |-> "user", content |-> actor.context.userMessage],
                     [role |-> "assistant", content |-> "response"] >> ])

\* an onError that records the message that failed
ChatbotOnErrorRecords(actor) ==
    ChatbotGoto(actor, "error",
      [ actor.context EXCEPT
          !.error = "LLM API call failed",
          !.conversationHistory =
             Append(@, [role |-> "user", content |-> actor.context.userMessage]) ])

\* calling_llm.invoke.onError
ChatbotOnError(actor) ==
    ChatbotGoto(actor, "error", [actor.context EXCEPT !.error = "LLM API call failed"])

\* error.after[RETRY_DELAY_MS]
ChatbotAfterRetryDelay(actor) ==
    IF actor.context.retryCount < MAX_LLM_RETRIES
    THEN ChatbotGoto(actor, "calling_llm",
                     [actor.context EXCEPT !.retryCount = @ + 1, !.error = "null"])
    ELSE ChatbotGoto(actor, "failed", actor.context)

\* the delayed event of visit t of error reaches the machine: error takes
\* it, whichever visit armed it; no other state has a transition for it
ChatbotAfter(actor, t) ==
    IF actor.value = "error"
    THEN ChatbotAfterRetryDelay([actor EXCEPT !.stale = @ \/ t # actor.visits])
    ELSE actor

\* createActor(chatbotMachine) and start()
ChatbotActorInit ==
    [ value |-> "waiting_input",
      context |-> [ userMessage |-> <<>>, conversationHistory |-> <<>>,
                    currentResponse |-> "null", error |-> "null", retryCount |-> 0 ],
      status |-> "active",
      timers |-> {},
      visits |-> 0,
      stale |-> FALSE,
      inflight |-> FALSE,
      notified |-> 1,
      dropped |-> FALSE,
      sent |-> 0,
      accepted |-> 0,
      llmCalls |-> 0,
      calls |-> 0,
      manual |-> FALSE ]

\* the driver sends the next message of the script
ChatbotSendMessage ==
    /\ "chatbot-xstate" \in running
    /\ chatbotActor.sent < Len(script)
    /\ LET event == [type |-> "SEND_MESSAGE", message |-> script[chatbotActor.sent + 1]]
           actor == [chatbotActor EXCEPT !.sent = @ + 1]
           next  == ActorReceive(actor, ChatbotOn(actor, event))
       IN  /\ next.llmCalls <= Len(outcomes)
           /\ chatbotActor' = next
    /\ UNCHANGED <<running, outcomes, demoVars, exampleVars, script, staticVars, chatActor, mastraChat, langgraphChat>>

\* chatActor.send of one of the events without a message
ChatbotSendOther ==
    /\ "chatbot-xstate" \in running
    /\ \E type \in {"RETRY", "RESET"} :
         LET next == ActorReceive(chatbotActor, ChatbotOn(chatbotActor, [type |-> type]))
         IN  /\ next.llmCalls <= Len(outcomes)
             /\ chatbotActor' = next
    /\ UNCHANGED <<running, outcomes, demoVars, exampleVars, script, staticVars, chatActor, mastraChat, langgraphChat>>

\* the promise of callLLM settles
ChatbotSettle ==
    /\ "chatbot-xstate" \in running
    /\ chatbotActor.inflight
    /\ LET actor == [chatbotActor EXCEPT !.inflight = FALSE]
       IN  chatbotActor' = ActorReceive(actor, IF outcomes[chatbotActor.llmCalls]
                                               THEN ChatbotOnDone(actor)
                                               ELSE ChatbotOnError(actor))
    /\ UNCHANGED <<running, outcomes, demoVars, exampleVars, script, staticVars, chatActor, mastraChat, langgraphChat>>

\* a pending retry timer expires
ChatbotRetryTimer ==
    /\ "chatbot-xstate" \in running
    /\ \E t \in chatbotActor.timers :
         LET actor == [chatbotActor EXCEPT !.timers = @ \ {t}]
             next  == ActorReceive(actor, ChatbotAfter(actor, t))
         IN  /\ next.llmCalls <= Len(outcomes)
             /\ chatbotActor' = next
    /\ UNCHANGED <<running, outcomes, demoVars, exampleVars, script, staticVars, chatActor, mastraChat, langgraphChat>>

\* the timer set after the last message calls chatActor.stop(); the
\* pending delayed transition is cancelled
ChatbotStop ==
    /\ "chatbot-xstate" \in running
    /\ chatbotActor.status = "active"
    /\ chatbotActor.sent = Len(script)
    /\ chatbotActor' = [chatbotActor EXCEPT !.status = "stopped", !.timers = {}]
    /\ UNCHANGED <<running, outcomes, demoVars, exampleVars, script, staticVars, chatActor, mastraChat, langgraphChat>>

\* the machine and the demo driver
ChatbotDemoNext ==
    \/ ChatbotSendMessage
    \/ ChatbotSettle
    \/ ChatbotRetryTimer
    \/ ChatbotStop

\* the machine with a client that also sends RETRY and RESET
ChatbotActorNext == ChatbotDemoNext \/ ChatbotSendOther

(***************************************************************************)
(* 03-workflow-comparison: the Mastra chatbot                              *)
(*                                                                         *)
(* The program is the record [pc, index, conversationHistory, state,       *)
(* success, llmCalls, calls, results]: pc is the step that runs next       *)
(* ('run' between two runs of the workflow), index counts the messages of  *)
(* the script handed to a run, conversationHistory is the variable of      *)
(* runMastraChatbot, state the ChatState handed from step to step, success *)
(* the flag of call-llm.  calls counts the invocations of callLLM of the   *)
(* current run, llmCalls all of them; results keeps, for every finished    *)
(* run, the status it ended with and its calls.                            *)
(***************************************************************************)
\* the condition of the while loop of call-llm
MastraChatLoopCondition(success, state) ==
    ~success /\ state.retryCount < MAX_LLM_RETRIES

\* validate-input
MastraValidateInput(input) ==
    LET userMessage == Trim(input.userMessage)
    IN  IF Len(userMessage) = 0
        THEN [ userMessage |-> <<>>,
               conversationHistory |-> input.conversationHistory,
               currentResponse |-> "null",
               retryCount |-> 0,
               status |-> "failed" ]
        ELSE [ userMessage |-> userMessage,
               conversationHistory |-> input.conversationHistory,
               currentResponse |-> "null",
               retryCount |-> input.retryCount,
               status |-> "validating" ]

\* runMastraChatbot before its loop
MastraChatInit ==
    [ pc |-> "run",
      index |-> 0,
      conversationHistory |-> <<>>,
      state |-> [ userMessage |-> <<>>, conversationHistory |-> <<>>,
                  currentResponse |-> "null", retryCount |-> 0, status |-> "none" ],
      success |-> FALSE,
      llmCalls |-> 0,
      calls |-> 0,
      results |-> <<>> ]

\* the loop of runMastraChatbot: start a run for the next message, or finish
MastraChatRun ==
    /\ "chatbot-mastra" \in running
    /\ mastraChat.pc = "run"
    /\ mastraChat' =
         IF mastraChat.index < Len(script)
         THEN [ mastraChat EXCEPT
                  !.pc = "validate-input",
                  !.index = @ + 1,
                  !.calls = 0,
                  !.state = [ userMessage |-> script[mastraChat.index + 1],
                              conversationHistory |-> mastraChat.conversationHistory,
                              currentResponse |-> "null",
                              retryCount |-> 0,
                              status |-> "none" ] ]
         ELSE [mastraChat EXCEPT !.pc = "done"]
    /\ UNCHANGED <<running, outcomes, demoVars, exampleVars, script, staticVars, chatActor, chatbotActor, langgraphChat>>

\* validate-input
MastraChatValidateInput ==
    /\ "chatbot-mastra" \in running
    /\ mastraChat.pc = "validate-input"
    /\ mastraChat' = [ mastraChat EXCEPT !.pc = "call-llm",
                                         !.state = MastraValidateInput(@) ]
    /\ UNCHANGED <<running, outcomes, demoVars, exampleVars, script, staticVars, chatActor, chatbotActor, langgraphChat>>

\* call-llm up to its loop
MastraChatCallLLM ==
    /\ "chatbot-mastra" \in running
    /\ mastraChat.pc = "call-llm"
    /\ mastraChat' =
         IF mastraChat.state.status = "failed"
         THEN [mastraChat EXCEPT !.pc = "display-response"]
         ELSE [ mastraChat EXCEPT !.pc = "call-llm:loop",
                                  !.state.status = "processing",
                                  !.success = FALSE ]
    /\ UNCHANGED <<running, outcomes, demoVars, exampleVars, script, staticVars, chatActor, chatbotActor, langgraphChat>>

\* call-llm at the condition of its loop: call callLLM, or leave the loop
\* and return
MastraChatLoop ==
    /\ "chatbot-mastra" \in running
    /\ mastraChat.pc = "call-llm:loop"
    /\ IF MastraChatLoopCondition(mastraChat.success, mastraChat.state)
       THEN /\ mastraChat.llmCalls < Len(outcomes)
            /\ mastraChat' = [ mastraChat EXCEPT !.pc = "call-llm:await",
                                                 !.llmCalls = @ + 1,
                                                 !.calls = @ + 1 ]
       ELSE mastraChat' =
              [ mastraChat EXCEPT
                  !.pc = "display-response",
                  !.state.status = IF mastraChat.success THEN @ ELSE "failed" ]
    /\ UNCHANGED <<running, outcomes, demoVars, exampleVars, script, staticVars, chatActor, chatbotActor, langgraphChat>>

\* call-llm when callLLM has settled
MastraChatSettle ==
    /\ "chatbot-mastra" \in running
    /\ mastraChat.pc = "call-llm:await"
    /\ mastraChat' =
         IF outcomes[mastraChat.llmCalls]
         THEN [ mastraChat EXCEPT
                  !.pc = "call-llm:loop",
                  !.success = TRUE,
                  !.state = [ @ EXCEPT
                      !.currentResponse = "response",
                      !.conversationHistory =
                         @ \o << [role |-> "user",
                                  content |-> mastraChat.state.userMessage],
                                 [role |-> "assistant", content |-> "response"] >>,
                      !.status = "success" ] ]
         ELSE [ mastraChat EXCEPT
                  !.pc = "call-llm:loop",
                  !.state.retryCount = @ + 1 ]
    /\ UNCHANGED <<running, outcomes, demoVars, exampleVars, script, staticVars, chatActor, chatbotActor, langgraphChat>>

\* display-response hands its input on; the run ends with status success
\* and runMastraChatbot takes over its conversationHistory
MastraChatDisplayResponse ==
    /\ "chatbot-mastra" \in running
    /\ mastraChat.pc = "display-response"
    /\ mastraChat' =
         [ mastraChat EXCEPT
             !.pc = "run",
             !.conversationHistory = mastraChat.state.conversationHistory,
             !.results = Append(@, [ status |-> mastraChat.state.status,
                                     calls |-> mastraChat.calls ]) ]
    /\ UNCHANGED <<running, outcomes, demoVars, exampleVars, script, staticVars, chatActor, chatbotActor, langgraphChat>>

MastraChatNext ==
    \/ MastraChatRun
    \/ MastraChatValidateInput
    \/ MastraChatCallLLM
    \/ MastraChatLoop
    \/ MastraChatSettle
    \/ MastraChatDisplayResponse

(***************************************************************************)
(* 03-workflow-comparison: the LangGraph chatbot                           *)
(*                                                                         *)
(* The program is the record [node, index, conversationHistory, state,     *)
(* llmCalls, calls, results], as for the Mastra chatbot; node is the node  *)
(* that runs next ('invoke' between two invocations of the graph).         *)
(***************************************************************************)
\* the conditional edge after validate_input
RouteAfterValidation(state) ==
    IF state.status = "failed" THEN "__end__" ELSE "call_llm"

\* the conditional edge after call_llm
RouteAfterLLMCall(state) ==
    IF state.status = "success"
    THEN "display_response"
    ELSE IF state.status = "processing" /\ state.retryCount < MAX_LLM_RETRIES
         THEN "call_llm"
         ELSE "handle_failure"

\* the program after a node left `state` and the graph goes on to `node`;
\* at END runLangGraphChatbot takes over the history of a successful result
LgChatGoto(program, node, state) ==
    IF node = "__end__"
    THEN [ program EXCEPT
             !.node = "invoke",
             !.state = state,
             !.conversationHistory = IF state.status = "success"
                                     THEN state.conversationHistory ELSE @,
             !.results = Append(@, [status |-> state.status, calls |-> program.calls]) ]
    ELSE [program EXCEPT !.node = node, !.state = state]

\* runLangGraphChatbot before its loop
LanggraphChatInit ==
    [ node |-> "invoke",
      index |-> 0,
      conversationHistory |-> <<>>,
      state |-> [ userMessage |-> <<>>, conversationHistory |-> <<>>,
                  currentResponse |-> "null", retryCount |-> 0, status |-> "waiting" ],
      llmCalls |-> 0,
      calls |-> 0,
      results |-> <<>> ]

\* the loop of runLangGraphChatbot: invoke the graph on the next message,
\* or finish
LgChatInvoke ==
    /\ "chatbot-langgraph" \in running
    /\ langgraphChat.node = "invoke"
    /\ langgraphChat' =
         IF langgraphChat.index < Len(script)
         THEN [ langgraphChat EXCEPT
                  !.node = "validate_input",
                  !.index = @ + 1,
                  !.calls = 0,
                  !.state = [ userMessage |-> script[langgraphChat.index + 1],
                              conversationHistory |-> langgraphChat.conversationHistory,
                              currentResponse |-> "null",
                              retryCount |-> 0,
                              status |-> "waiting" ] ]
         ELSE [langgraphChat EXCEPT !.node = "done"]
    /\ UNCHANGED <<running, outcomes, demoVars, exampleVars, script, staticVars, chatActor, chatbotActor, mastraChat>>

\* validate_input, then routeAfterValidation
LgChatValidateInput ==
    /\ "chatbot-langgraph" \in running
    /\ langgraphChat.node = "validate_input"
    /\ LET after == [ langgraphChat.state EXCEPT
                        !.status = IF Len(Trim(langgraphChat.state.userMessage)) = 0
                                   THEN "failed" ELSE "validating" ]
       IN  langgraphChat' = LgChatGoto(langgraphChat, RouteAfterValidation(after), after)
    /\ UNCHANGED <<running, outcomes, demoVars, exampleVars, script, staticVars, chatActor, chatbotActor, mastraChat>>

\* call_llm up to its call of callLLM
LgChatCallLLM ==
    /\ "chatbot-langgraph" \in running
    /\ langgraphChat.node = "call_llm"
    /\ langgraphChat.llmCalls < Len(outcomes)
    /\ langgraphChat' = [ langgraphChat EXCEPT !.node = "call_llm:await",
                                               !.llmCalls = @ + 1,
                                               !.calls = @ + 1 ]
    /\ UNCHANGED <<running, outcomes, demoVars, exampleVars, script, staticVars, chatActor, chatbotActor, mastraChat>>

\* call_llm when callLLM has settled, then routeAfterLLMCall
LgChatSettle ==
    /\ "chatbot-langgraph" \in running
    /\ langgraphChat.node = "call_llm:await"
    /\ LET state == langgraphChat.state
           after ==
             IF outcomes[langgraphChat.llmCalls]
             THEN [ state EXCEPT
                      !.currentResponse = "response",
                      !.conversationHistory =
                         @ \o << [role |-> "user", content |-> state.userMessage],
                                 [role |-> "assistant", content |-> "response"] >>,
                      !.status = "success" ]
             ELSE [ state EXCEPT !.retryCount = @ + 1, !.status = "processing" ]
       IN  langgraphChat' = LgChatGoto(langgraphChat, RouteAfterLLMCall(after), after)
    /\ UNCHANGED <<running, outcomes, demoVars, exampleVars, script, staticVars, chatActor, chatbotActor, mastraChat>>

\* display_response
LgChatDisplayResponse ==
    /\ "chatbot-langgraph" \in running
    /\ langgraphChat.node = "display_response"
    /\ langgraphChat' = LgChatGoto(langgraphChat, "__end__", langgraphChat.state)
    /\ UNCHANGED <<running, outcomes, demoVars, exampleVars, script, staticVars, chatActor, chatbotActor, mastraChat>>

\* handle_failure
LgChatHandleFailure ==
    /\ "chatbot-langgraph" \in running
    /\ langgraphChat.node = "handle_failure"
    /\ langgraphChat' = LgChatGoto(langgraphChat, "__end__",
                                   [langgraphChat.state EXCEPT !.status = "failed"])
    /\ UNCHANGED <<running, outcomes, demoVars, exampleVars, script, staticVars, chatActor, chatbotActor, mastraChat>>

LanggraphChatNext ==
    \/ LgChatInvoke
    \/ LgChatValidateInput
    \/ LgChatCallLLM
    \/ LgChatSettle
    \/ LgChatDisplayResponse
    \/ LgChatHandleFailure

(***************************************************************************)
(* 04-advanced-topics: state persistence (gameMachine, saveGame,           *)
(* loadSavedGame)                                                          *)
(*                                                                         *)
(* A number is an integer or Infinity; a string is a sequence of symbols.  *)
(* The text of a JSON value is a sequence of characters.  The program is   *)
(* the record [value, context, status, timer, notified, dropped, file,     *)
(* saved, events, actor]: file is <<>> while game-save.json does not exist *)
(* and <<text>> when it holds text (one JSON text per property), saved is  *)
(* <<>> or <<c>> for the context c handed to the last saveGame call that   *)
(* wrote the file, events counts the events sent, actor is 1 for gameActor *)
(* and 2 for newGameActor.                                                 *)
(***************************************************************************)
\* the number Infinity (larger than every other number of the model)
Infinity == 1000000

\* the points an EARN_POINTS event carries
GamePoints == {0, 250, 300, Infinity}

\* a + b of two numbers
JsPlus(a, b) == IF a = Infinity \/ b = Infinity THEN Infinity ELSE a + b

Digits == <<"0", "1", "2", "3", "4", "5", "6", "7", "8", "9">>

\* the decimal digits of a natural number
RECURSIVE NatToText(_)
NatToText(n) ==
    IF n < 10 THEN <<Digits[n + 1]>>
    ELSE Append(NatToText(n \div 10), Digits[(n % 10) + 1])

\* the natural number a sequence of decimal digits denotes
RECURSIVE TextToNat(_)
TextToNat(text) ==
    IF text = <<>> THEN 0
    ELSE 10 * TextToNat(SubSeq(text, 1, Len(text) - 1))
           + (CHOOSE d \in 0..9 : Digits[d + 1] = text[Len(text)])

\* JSON.stringify of a number: a number that is not finite becomes null
JsonNumber(n) ==
    IF n = Infinity THEN <<"n", "u", "l", "l">>
    ELSE IF n < 0 THEN <<"-">> \o NatToText(-n)
    ELSE NatToText(n)

\* JSON.stringify of a string
JsonString(str) == <<"\"">> \o str \o <<"\"">>

\* typeof of the value JSON.parse makes of a JSON text; a property the
\* object lacks has the text <<>> and is undefined
JsonTypeOf(text) ==
    IF text = <<>> THEN "undefined"
    ELSE IF text = <<"n", "u", "l", "l">> THEN "object"
    ELSE IF Head(text) = "\"" THEN "string"
    ELSE "number"

\* the number JSON.parse makes of the text of a number
JsonToNumber(text) ==
    IF Head(text) = "-" THEN -TextToNat(Tail(text)) ELSE TextToNat(text)

\* the string JSON.parse makes of the text of a string
JsonToString(text) == SubSeq(text, 2, Len(text) - 1)

\* JSON.stringify(saveData) of saveGame, property by property
JsonSaveData(context) ==
    [ level |-> JsonNumber(context.level),
      score |-> JsonNumber(context.score),
      lives |-> JsonNumber(context.lives),
      playerName |-> JsonString(context.playerName),
      savedAt |-> JsonString(<<"now">>) ]

\* parseSavedGame(JSON.parse(data)): <<>> for null
ParseSavedGame(data) ==
    IF \/ JsonTypeOf(data.level) # "number"
       \/ JsonTypeOf(data.score) # "number"
       \/ JsonTypeOf(data.lives) # "number"
       \/ JsonTypeOf(data.playerName) # "string"
    THEN <<>>
    ELSE << [ level |-> JsonToNumber(data.level),
              score |-> JsonToNumber(data.score),
              lives |-> JsonToNumber(data.lives),
              playerName |-> JsonToString(data.playerName) ] >>

\* JSON.parse(data) returns: no property holds text that is not JSON (a
\* file that cannot be read or parsed has a property with the text "?")
JsonValid(data) == \A key \in DOMAIN data : data[key] # <<"?">>

\* loadSavedGame(): <<>> for null; a file that does not exist, and one
\* that readFileSync or JSON.parse throws on, give null
LoadSavedGame(file) ==
    IF file = <<>> THEN <<>>
    ELSE IF ~JsonValid(file[1]) THEN <<>>
    ELSE ParseSavedGame(file[1])

\* the states of gameMachine that declare a delayed transition
GameDelayed == {"savingFromPlaying", "savingFromPaused"}

\* the actor after a transition to `target` whose actions left `context`
GameGoto(actor, target, context) ==
    [ actor EXCEPT !.value = target,
                   !.context = context,
                   !.timer = IF target \in GameDelayed THEN target ELSE "none" ]

\* a playing without its always transition
GamePlayingUnguarded(actor, context) == GameGoto(actor, "playing", context)

\* playing with its always transition, taken as soon as its guard holds
GamePlaying(actor, context) ==
    IF context.lives <= 0
    THEN GameGoto(actor, "gameOver", context)
    ELSE GameGoto(actor, "playing", context)

\* a saving state is entered: saveGame(context), where the file is written
\* unless writeFileSync throws
GameSaving(actor, target, writable) ==
    [ GameGoto(actor, target, actor.context) EXCEPT
        !.file = IF writable THEN <<JsonSaveData(actor.context)>> ELSE @,
        !.saved = IF writable THEN <<actor.context>> ELSE @ ]

\* the `on` transitions of gameMachine
GameOn(actor, event, writable) ==
    CASE actor.value = "menu" /\ event.type = "NEW_GAME"
           -> GamePlaying(actor, [actor.context EXCEPT !.level = 1, !.score = 0,
                                                       !.lives = 3])
      [] actor.value = "menu" /\ event.type = "LOAD_GAME"
           -> GamePlaying(actor,
                [ key \in DOMAIN actor.context |->
                    IF key \in DOMAIN event.savedState
                    THEN event.savedState[key]
                    ELSE actor.context[key] ])
      [] actor.value = "playing" /\ event.type = "EARN_POINTS"
           -> GamePlaying(actor,
                [actor.context EXCEPT
                   !.score = JsPlus(@, IF event.points = 0 THEN 100 ELSE event.points)])
      [] actor.value = "playing" /\ event.type = "LOSE_LIFE"
           -> GamePlaying(actor, [actor.context EXCEPT !.lives = @ - 1])
      [] actor.value = "playing" /\ event.type = "LEVEL_UP"
           -> GamePlaying(actor, [actor.context EXCEPT !.level = @ + 1,
                                                       !.lives = @ + 1])
      [] actor.value = "playing" /\ event.type = "SAVE"
           -> GameSaving(actor, "savingFromPlaying", writable)
      [] actor.value = "playing" /\ event.type = "PAUSE"
           -> GameGoto(actor, "paused", actor.context)
      [] actor.value = "paused" /\ event.type = "RESUME"
           -> GamePlaying(actor, actor.context)
      [] actor.value = "paused" /\ event.type = "SAVE"
           -> GameSaving(actor, "savingFromPaused", writable)
      [] actor.value = "paused" /\ event.type = "QUIT"
           -> GameGoto(actor, "menu", actor.context)
      [] actor.value = "gameOver" /\ event.type = "RESTART"
           -> GameGoto(actor, "menu", actor.context)
      [] OTHER -> actor

\* a machine whose saving states both lead to playing
GameAfterSavingToPlaying(actor) == GamePlaying(actor, actor.context)

\* savingFromPlaying.after[1000] and savingFromPaused.after[1000]
GameAfterSaving(actor) ==
    IF actor.value = "savingFromPlaying"
    THEN GamePlaying(actor, actor.context)
    ELSE GameGoto(actor, "paused", actor.context)

\* saved states a LOAD_GAME event may carry: one with lives left, one
\* without
GameSavedStates ==
    { [level |-> 2, score |-> 250, lives |-> n, playerName |-> <<"Player">>] :
        n \in {0, 2} }

\* the events of the GameEvent type
GameEvents ==
    { [type |-> t] : t \in { "NEW_GAME", "LOSE_LIFE", "LEVEL_UP", "SAVE", "PAUSE",
                             "RESUME", "QUIT", "RESTART" } }
      \cup { [type |-> "EARN_POINTS", points |-> n] : n \in GamePoints }
      \cup { [type |-> "LOAD_GAME", savedState |-> s] : s \in GameSavedStates }

\* deleteSaveFile(), createActor(gameMachine) and start()
GameInit ==
    [ value |-> "menu",
      context |-> [level |-> 1, score |-> 0, lives |-> 3, playerName |-> <<"Player">>],
      status |-> "active",
      timer |-> "none",
      notified |-> 1,
      dropped |-> FALSE,
      file |-> <<>>,
      saved |-> <<>>,
      events |-> 0,
      actor |-> 1 ]

\* the actor createActor(gameMachine) makes while the program is in state g
GameFresh(g) ==
    [ GameInit EXCEPT !.file = g.file, !.saved = g.saved, !.events = g.events,
                      !.actor = 2 ]

\* the script sends an event to the actor it uses
GameSend ==
    /\ "state-persistence" \in running
    /\ game.events < MaxGameEvents
    /\ \E event \in GameEvents, writable \in BOOLEAN :
         LET actor == [game EXCEPT !.events = @ + 1]
         IN  game' = ActorReceive(actor, GameOn(actor, event, writable))
    /\ UNCHANGED <<running, outcomes, demoVars, staticVars, chatVars,
                   playerActor, toggleActor, counterActor, formActor>>

\* the timer of a saving state expires
GameSaveTimer ==
    /\ "state-persistence" \in running
    /\ game.timer \in GameDelayed
    /\ game' = ActorReceive(game, GameAfterSaving(game))
    /\ UNCHANGED <<running, outcomes, demoVars, staticVars, chatVars,
                   playerActor, toggleActor, counterActor, formActor>>

\* stop() of the actor in use; after newGameActor.stop() the script deletes
\* the save file
GameStop ==
    /\ "state-persistence" \in running
    /\ game.status = "active"
    /\ game' = [ game EXCEPT !.status = "stopped",
                             !.timer = "none",
                             !.file = IF game.actor = 2 THEN <<>> ELSE @ ]
    /\ UNCHANGED <<running, outcomes, demoVars, staticVars, chatVars,
                   playerActor, toggleActor, counterActor, formActor>>

\* the save files something other than saveGame may leave where `file` was:
\* none, one whose lives are a string, one without playerName, one that is
\* not JSON
GameOtherFiles(file) ==
    LET data == IF file = <<>> THEN JsonSaveData(GameInit.context) ELSE file[1]
    IN  { <<>>,
          <<[data EXCEPT !.lives = JsonString(<<"3">>)]>>,
          <<[data EXCEPT !.playerName = <<>>]>>,
          <<[data EXCEPT !.score = <<"?">>]>> }

\* between the two scenarios (the application is not running) the save
\* file is removed or replaced
GameFileChanged ==
    /\ "state-persistence" \in running
    /\ game.actor = 1
    /\ game.status = "stopped"
    /\ \E file \in GameOtherFiles(game.file) \ {game.file} :
         game' = [game EXCEPT !.file = file, !.saved = <<>>]
    /\ UNCHANGED <<running, outcomes, demoVars, staticVars, chatVars,
                   playerActor, toggleActor, counterActor, formActor>>

\* a script that sends LOAD_GAME whatever loadSavedGame() returns
GameReloadAlways ==
    /\ "state-persistence" \in running
    /\ game.actor = 1
    /\ game.status = "stopped"
    /\ LET savedState == LoadSavedGame(game.file)
           fresh == GameFresh(game)
       IN  game' = ActorReceive(fresh,
                     GameOn(fresh, [ type |-> "LOAD_GAME",
                                     savedState |-> IF savedState = <<>> THEN <<>>
                                                    ELSE savedState[1] ], TRUE))
    /\ UNCHANGED <<running, outcomes, demoVars, staticVars, chatVars,
                   playerActor, toggleActor, counterActor, formActor>>

\* scenario 2: a new actor is created and started, and LOAD_GAME is sent
\* with what loadSavedGame() returns unless that is null
GameReload ==
    /\ "state-persistence" \in running
    /\ game.actor = 1
    /\ game.status = "stopped"
    /\ LET savedState == LoadSavedGame(game.file)
           fresh == GameFresh(game)
       IN  game' = IF savedState = <<>>
                   THEN fresh
                   ELSE ActorReceive(fresh,
                          GameOn(fresh, [ type |-> "LOAD_GAME",
                                          savedState |-> savedState[1] ], TRUE))
    /\ UNCHANGED <<running, outcomes, demoVars, staticVars, chatVars,
                   playerActor, toggleActor, counterActor, formActor>>

GameNext ==
    \/ GameSend
    \/ GameSaveTimer
    \/ GameStop
    \/ GameFileChanged
    \/ GameReload

(***************************************************************************)
(* 04-advanced-topics: hierarchical states (musicPlayerMachine)            *)
(*                                                                         *)
(* A state node is the path of keys that leads to it; the machine has no   *)
(* parallel states, so the state value of a snapshot is the path of its    *)
(* active atomic state, and the active states are the prefixes of it.  The *)
(* actor is the record [value, status, notified, dropped, events, last,    *)
(* before, mode, child]: events counts the events sent to it, last is the  *)
(* last of them and before the value the actor had when it arrived; mode   *)
(* is the child of playing and child the child of powerOn that was active  *)
(* most recently before that event ("" if none ever was).                  *)
(***************************************************************************)
PlayerEvent ==
    {"POWER_ON", "POWER_OFF", "PLAY", "PAUSE", "STOP", "TOGGLE_REPEAT", "TOGGLE_SHUFFLE"}

\* a machine whose playing state starts in the repeat mode
PlayerInitialRepeat(node) ==
    CASE node = <<>>                      -> <<"powerOff">>
      [] node = <<"powerOn">>             -> <<"powerOn", "stopped">>
      [] node = <<"powerOn", "playing">>  -> <<"powerOn", "playing", "repeat">>
      [] OTHER                            -> <<>>

\* `initial` of a state node with child states; <<>> for an atomic state
PlayerInitial(node) ==
    CASE node = <<>>                      -> <<"powerOff">>
      [] node = <<"powerOn">>             -> <<"powerOn", "stopped">>
      [] node = <<"powerOn", "playing">>  -> <<"powerOn", "playing", "normal">>
      [] OTHER                            -> <<>>

\* the key a state node gives as the target of its `on` transition for
\* `event`; "" if it declares none
PlayerTargetKey(node, event) ==
    CASE node = <<"powerOff">> /\ event = "POWER_ON"                -> "powerOn"
      [] node = <<"powerOn">> /\ event = "POWER_OFF"                -> "powerOff"
      [] node = <<"powerOn", "stopped">> /\ event = "PLAY"          -> "playing"
      [] node = <<"powerOn", "playing">> /\ event = "PAUSE"         -> "paused"
      [] node = <<"powerOn", "playing">> /\ event = "STOP"          -> "stopped"
      [] node = <<"powerOn", "paused">> /\ event = "PLAY"           -> "playing"
      [] node = <<"powerOn", "paused">> /\ event = "STOP"           -> "stopped"
      [] node = <<"powerOn", "playing", "normal">> /\ event = "TOGGLE_REPEAT"
           -> "repeat"
      [] node = <<"powerOn", "playing", "normal">> /\ event = "TOGGLE_SHUFFLE"
           -> "shuffle"
      [] node = <<"powerOn", "playing", "repeat">> /\ event = "TOGGLE_REPEAT"
           -> "normal"
      [] node = <<"powerOn", "playing", "repeat">> /\ event = "TOGGLE_SHUFFLE"
           -> "shuffle"
      [] node = <<"powerOn", "playing", "shuffle">> /\ event = "TOGGLE_SHUFFLE"
           -> "normal"
      [] node = <<"powerOn", "playing", "shuffle">> /\ event = "TOGGLE_REPEAT"
           -> "repeat"
      [] OTHER -> ""

\* a machine that enters a state without entering its initial child
PlayerEnterShallow(node) == node

\* the atomic state that is active once `node` is entered: its initial
\* child, and so on
RECURSIVE PlayerEnter(_)
PlayerEnter(node) ==
    IF PlayerInitial(node) = <<>> THEN node ELSE PlayerEnter(PlayerInitial(node))

\* a machine in which only the active atomic state handles an event
PlayerHandlerLeafOnly(value, event) ==
    IF PlayerTargetKey(value, event) # "" THEN value ELSE <<>>

\* the active state that handles `event`: the deepest one that declares a
\* transition for it; <<>> if none does
RECURSIVE PlayerHandler(_, _)
PlayerHandler(value, event) ==
    IF value = <<>> THEN <<>>
    ELSE IF PlayerTargetKey(value, event) # "" THEN value
    ELSE PlayerHandler(SubSeq(value, 1, Len(value) - 1), event)

\* the state value after `event`: the target is a sibling of the state that
\* handles the event
PlayerOn(value, event) ==
    LET source == PlayerHandler(value, event)
    IN  IF source = <<>> THEN value
        ELSE PlayerEnter(Append(SubSeq(source, 1, Len(source) - 1),
                                PlayerTargetKey(source, event)))

\* createActor(musicPlayerMachine) and start()
PlayerActorInit ==
    [ value |-> PlayerEnter(<<>>),
      status |-> "active",
      notified |-> 1,
      dropped |-> FALSE,
      events |-> 0,
      last |-> "",
      before |-> <<>>,
      mode |-> "",
      child |-> "" ]

\* playerActor.send(event)
PlayerSend ==
    /\ "hierarchical-states" \in running
    /\ playerActor.events < MaxSent
    /\ \E event \in PlayerEvent :
         LET value == playerActor.value
             actor == [playerActor EXCEPT
                         !.events = @ + 1,
                         !.last = event,
                         !.before = value,
                         !.mode = IF Len(value) = 3 THEN value[3] ELSE @,
                         !.child = IF Len(value) >= 2 THEN value[2] ELSE @]
         IN  playerActor' =
               ActorReceive(actor, [actor EXCEPT !.value = PlayerOn(@, event)])
    /\ UNCHANGED <<running, outcomes, demoVars, staticVars, chatVars,
                   game, toggleActor, counterActor, formActor>>

\* playerActor.stop()
PlayerStop ==
    /\ "hierarchical-states" \in running
    /\ playerActor.status = "active"
    /\ playerActor' = [playerActor EXCEPT !.status = "stopped"]
    /\ UNCHANGED <<running, outcomes, demoVars, staticVars, chatVars,
                   game, toggleActor, counterActor, formActor>>

PlayerNext == PlayerSend \/ PlayerStop

(***************************************************************************)
(* 02-xstate-examples: basic-machine (toggleMachine, counterMachine)       *)
(*                                                                         *)
(* An actor is the record [value, context, status, notified, dropped,      *)
(* sent, printed]: sent is the sequence of events sent to it, printed the  *)
(* sequence of what its subscriber was called with (the state value for    *)
(* the toggle, context.count for the counter).  The script is two programs *)
(* in a row, 'basic-machine/toggle' and 'basic-machine/counter': the       *)
(* counter actor is created after the toggle actor was stopped, and the    *)
(* two share nothing.                                                      *)
(***************************************************************************)
\* TOGGLE, and an event toggleMachine has no transition for
ToggleActorEvent == {"TOGGLE", "RESET"}

\* the `on` transitions of toggleMachine
ToggleOn(actor, event) ==
    CASE actor.value = "inactive" /\ event = "TOGGLE" -> [actor EXCEPT !.value = "active"]
      [] actor.value = "active" /\ event = "TOGGLE"   -> [actor EXCEPT !.value = "inactive"]
      [] OTHER                                         -> actor

\* a subscriber that is called only when the snapshot has changed
SubscriberOnChange(actor, next, line) ==
    IF next.value # actor.value \/ next.context # actor.context
    THEN [next EXCEPT !.printed = Append(@, line)]
    ELSE next

\* the subscriber of the actor: called with the snapshot whenever the actor
\* has taken an event, it adds a line to the output
Subscriber(actor, next, line) ==
    IF next.notified # actor.notified
    THEN [next EXCEPT !.printed = Append(@, line)]
    ELSE next

\* createActor(toggleMachine), subscribe and start(): the subscriber is
\* called with the initial snapshot
ToggleActorInit ==
    [ value |-> "inactive",
      context |-> <<>>,
      status |-> "active",
      notified |-> 1,
      dropped |-> FALSE,
      sent |-> <<>>,
      printed |-> <<"inactive">> ]

\* toggleActor.send(event)
ToggleActorSend ==
    /\ "basic-machine/toggle" \in running
    /\ Len(toggleActor.sent) < MaxSent
    /\ \E event \in ToggleActorEvent :
         LET actor == [toggleActor EXCEPT !.sent = Append(@, event)]
             next  == ActorReceive(actor, ToggleOn(actor, event))
         IN  toggleActor' = Subscriber(actor, next, next.value)
    /\ UNCHANGED <<running, outcomes, demoVars, staticVars, chatVars,
                   game, playerActor, counterActor, formActor>>

\* toggleActor.stop()
ToggleActorStop ==
    /\ "basic-machine/toggle" \in running
    /\ toggleActor.status = "active"
    /\ toggleActor' = [toggleActor EXCEPT !.status = "stopped"]
    /\ UNCHANGED <<running, outcomes, demoVars, staticVars, chatVars,
                   game, playerActor, counterActor, formActor>>

CounterEvent == {"INCREMENT", "DECREMENT", "RESET"}

\* a counter whose DECREMENT stops at zero
CounterOnFloor(actor, event) ==
    CASE event = "INCREMENT" -> [actor EXCEPT !.context.count = @ + 1]
      [] event = "DECREMENT" -> [actor EXCEPT !.context.count = IF @ > 0 THEN @ - 1 ELSE 0]
      [] event = "RESET"     -> [actor EXCEPT !.context.count = 0]
      [] OTHER               -> actor

\* the `on` transitions of counterMachine (all in active, all targetless)
CounterOn(actor, event) ==
    CASE actor.value = "active" /\ event = "INCREMENT"
           -> [actor EXCEPT !.context.count = @ + 1]
      [] actor.value = "active" /\ event = "DECREMENT"
           -> [actor EXCEPT !.context.count = @ - 1]
      [] actor.value = "active" /\ event = "RESET"
           -> [actor EXCEPT !.context.count = 0]
      [] OTHER -> actor

\* createActor(counterMachine), subscribe and start(), which the script
\* does after it has stopped the toggle actor
CounterActorInit ==
    [ value |-> "active",
      context |-> [count |-> 0],
      status |-> "active",
      notified |-> 1,
      dropped |-> FALSE,
      sent |-> <<>>,
      printed |-> <<0>> ]

\* counterActor.send(event)
CounterActorSend ==
    /\ "basic-machine/counter" \in running
    /\ Len(counterActor.sent) < MaxSent
    /\ \E event \in CounterEvent :
         LET actor == [counterActor EXCEPT !.sent = Append(@, event)]
             next  == ActorReceive(actor, CounterOn(actor, event))
         IN  counterActor' = Subscriber(actor, next, next.context.count)
    /\ UNCHANGED <<running, outcomes, demoVars, staticVars, chatVars,
                   game, playerActor, toggleActor, formActor>>

\* counterActor.stop()
CounterActorStop ==
    /\ "basic-machine/counter" \in running
    /\ counterActor.status = "active"
    /\ counterActor' = [counterActor EXCEPT !.status = "stopped"]
    /\ UNCHANGED <<running, outcomes, demoVars, staticVars, chatVars,
                   game, playerActor, toggleActor, formActor>>

BasicMachineNext ==
    \/ ToggleActorSend
    \/ ToggleActorStop
    \/ CounterActorSend
    \/ CounterActorStop

(***************************************************************************)
(* 02-xstate-examples: form-validation (formMachine)                       *)
(*                                                                         *)
(* A string is a sequence of characters.  The actor is the record [value,  *)
(* context, status, timer, notified, dropped, events, last, submitted]:    *)
(* timer says that the delayed transition of submitting is pending, events *)
(* counts the events sent, last is the type of the last of them, submitted *)
(* is <<>> or <<c>> for the context c the last SUBMIT taken in editing     *)
(* found.                                                                  *)
(***************************************************************************)
MIN_PASSWORD_LENGTH == 6

\* the values of the INPUT_EMAIL events
Emails ==
    { <<>>, <<"u">>, <<"u", "@", "e">>, <<"u", "@", "e", ".", "c">>,
      <<"u", "@", ".", "c">>, <<"@", "e", ".", "c">>, <<"u", "@", "e", ".">>,
      <<"u", " ", "@", "e", ".", "c">>, <<"u", "@", "@", "e", ".", "c">>,
      <<"u", "@", "e", ".", "c", ".", "d">>, <<"u", "e", ".", "c">> }

\* the values of the INPUT_PASSWORD events
Passwords ==
    { <<>>, <<"1", "2", "3">>, <<"1", "2", "3", "4", "5">>,
      <<"1", "2", "3", "4", "5", "6">>, <<"1", "2", "3", "4", "5", "6", "7">>,
      <<" ", " ", " ", " ", " ", " ">> }

\* [^\s@]+ matches all of str
NoSpaceNoAt(str) ==
    /\ str # <<>>
    /\ \A i \in 1..Len(str) : str[i] \notin {" ", "@"}

\* EMAIL_REGEX.test(str): str is a run of [^\s@], '@', a run of [^\s@],
\* '.', a run of [^\s@]
EmailRegexTest(str) ==
    \E i, j \in 1..Len(str) :
       /\ i < j
       /\ str[i] = "@"
       /\ str[j] = "."
       /\ NoSpaceNoAt(SubSeq(str, 1, i - 1))
       /\ NoSpaceNoAt(SubSeq(str, i + 1, j - 1))
       /\ NoSpaceNoAt(SubSeq(str, j + 1, Len(str)))

\* a password check that also rejects a password of the minimum length
PasswordErrorsStrict(password) ==
    IF password = <<>> THEN <<"password required">>
    ELSE IF Len(password) <= MIN_PASSWORD_LENGTH THEN <<"password too short">>
    ELSE <<>>

\* the messages validating pushes for the e-mail address
EmailErrors(email) ==
    IF email = <<>> THEN <<"email required">>
    ELSE IF ~EmailRegexTest(email) THEN <<"email format">>
    ELSE <<>>

\* the messages validating pushes for the password
PasswordErrors(password) ==
    IF password = <<>> THEN <<"password required">>
    ELSE IF Len(password) < MIN_PASSWORD_LENGTH THEN <<"password too short">>
    ELSE <<>>

\* the actor after a transition to `target` whose actions left `context`
FormGoto(actor, target, context) ==
    [ actor EXCEPT !.value = target,
                   !.context = context,
                   !.timer = (target = "submitting") ]

\* the entry action of validating: errors computed from email and password
FormValidatingEntry(context) ==
    [context EXCEPT !.errors = EmailErrors(context.email)
                                 \o PasswordErrors(context.password)]

\* the always transitions of validating: the target the guard selects
FormValidatingAlways(context) ==
    IF Len(context.errors) = 0 THEN "submitting" ELSE "error"

\* a validating whose guard reads the context as it was before the entry
\* action
FormValidatingGuardFirst(actor) ==
    FormGoto(actor, FormValidatingAlways(actor.context),
             FormValidatingEntry(actor.context))

\* validating: the entry action, then the always transitions
FormValidating(actor) ==
    LET context == FormValidatingEntry(actor.context)
    IN  FormGoto(actor, FormValidatingAlways(context), context)

\* the `on` transitions of formMachine
FormOn(actor, event) ==
    CASE actor.value = "editing" /\ event.type = "INPUT_EMAIL"
           -> FormGoto(actor, "editing", [actor.context EXCEPT !.email = event.value])
      [] actor.value = "editing" /\ event.type = "INPUT_PASSWORD"
           -> FormGoto(actor, "editing", [actor.context EXCEPT !.password = event.value])
      [] actor.value = "editing" /\ event.type = "SUBMIT"
           -> FormValidating([actor EXCEPT !.submitted = <<actor.context>>])
      [] actor.value = "success" /\ event.type = "RESET"
           -> FormGoto(actor, "editing", actor.context)
      [] actor.value = "error" /\ event.type = "INPUT_EMAIL"
           -> FormGoto(actor, "editing", [actor.context EXCEPT !.email = event.value])
      [] actor.value = "error" /\ event.type = "INPUT_PASSWORD"
           -> FormGoto(actor, "editing", [actor.context EXCEPT !.password = event.value])
      [] actor.value = "error" /\ event.type = "RESET"
           -> FormGoto(actor, "editing",
                       [email |-> <<>>, password |-> <<>>, errors |-> <<>>])
      [] OTHER -> actor

\* submitting.after[1000]
FormAfterSubmitting(actor) == FormGoto(actor, "success", actor.context)

FormEvents ==
    { [type |-> "SUBMIT"], [type |-> "RESET"] }
      \cup { [type |-> "INPUT_EMAIL", value |-> v] : v \in Emails }
      \cup { [type |-> "INPUT_PASSWORD", value |-> v] : v \in Passwords }

\* createActor(formMachine) and start()
FormActorInit ==
    [ value |-> "editing",
      context |-> [email |-> <<>>, password |-> <<>>, errors |-> <<>>],
      status |-> "active",
      timer |-> FALSE,
      notified |-> 1,
      dropped |-> FALSE,
      events |-> 0,
      last |-> "",
      submitted |-> <<>> ]

\* formActor.send(event)
FormSend ==
    /\ "form-validation" \in running
    /\ formActor.events < MaxSent
    /\ \E event \in FormEvents :
         LET actor == [formActor EXCEPT !.events = @ + 1, !.last = event.type]
         IN  formActor' = ActorReceive(actor, FormOn(actor, event))
    /\ UNCHANGED <<running, outcomes, demoVars, staticVars, chatVars,
                   game, playerActor, toggleActor, counterActor>>

\* the timer of submitting expires
FormSubmitTimer ==
    /\ "form-validation" \in running
    /\ formActor.timer
    /\ formActor' = ActorReceive(formActor, FormAfterSubmitting(formActor))
    /\ UNCHANGED <<running, outcomes, demoVars, staticVars, chatVars,
                   game, playerActor, toggleActor, counterActor>>

\* formActor.stop()
FormStop ==
    /\ "form-validation" \in running
    /\ formActor.status = "active"
    /\ formActor' = [formActor EXCEPT !.status = "stopped", !.timer = FALSE]
    /\ UNCHANGED <<running, outcomes, demoVars, staticVars, chatVars,
                   game, playerActor, toggleActor, counterActor>>

FormNext == FormSend \/ FormSubmitTimer \/ FormStop

(***************************************************************************)
(* 03-workflow-comparison: the script that drives orderActor (retryCount   *)
(* version) by timers                                                      *)
(*                                                                         *)
(* orderClock is the record [now, timers, stopped, results]: now is the    *)
(* time in ms since the script started, timers the set of pending timers   *)
(* [due, kind] (the setTimeout calls of the script, and kind 'after' for   *)
(* the delayed transition of the state the actor is in), stopped is <<>>   *)
(* until the script calls stop() and then <<v>> for the state value v      *)
(* stop() found, results counts the delayed transitions taken out of       *)
(* processing_payment.  Timers run in the order of their due times.        *)
(***************************************************************************)
\* the delayed transition a state starts when it is entered
OrderAfter(value, now) ==
    CASE value = "processing_payment"
           -> {[due |-> now + PAYMENT_DELAY_MS, kind |-> "after"]}
      [] value = "payment_failed"
           -> {[due |-> now + RETRY_EVENT_DELAY_MS, kind |-> "after"]}
      [] value = "shipping"
           -> {[due |-> now + SHIPPING_DELAY_MS, kind |-> "after"]}
      [] OTHER -> {}

\* the second subscriber, called with every snapshot the actor emits
OrderSubscriber(value, now) ==
    IF value = "paid"
    THEN {[due |-> now + SHIP_EVENT_DELAY_MS, kind |-> "SHIP_ORDER"]}
    ELSE {}

\* a machine that arms the timer of a state the first time it is entered
\* only
OrderClockUpdateOnce(clock, t, actor, next) ==
    LET rest == clock.timers \ {t}
        moved == next.value # actor.value
    IN  [ clock EXCEPT
            !.now = t.due,
            !.timers = (IF moved THEN { u \in rest : u.kind # "after" } ELSE rest)
                         \cup (IF moved /\ next.attempts <= 1
                               THEN OrderAfter(next.value, t.due) ELSE {})
                         \cup (IF next.notified # actor.notified
                               THEN OrderSubscriber(next.value, t.due) ELSE {}) ]

\* the clock after timer t ran and took the actor from `actor` to `next`
OrderClockUpdate(clock, t, actor, next) ==
    LET rest == clock.timers \ {t}
        moved == next.value # actor.value
    IN  [ clock EXCEPT
            !.now = t.due,
            !.timers = (IF moved THEN { u \in rest : u.kind # "after" } ELSE rest)
                         \cup (IF moved THEN OrderAfter(next.value, t.due) ELSE {})
                         \cup (IF next.notified # actor.notified
                               THEN OrderSubscriber(next.value, t.due) ELSE {}) ]

\* start() and the three setTimeout calls of the script
OrderClockInit ==
    [ now |-> 0,
      timers |-> { [due |-> CONFIRM_EVENT_DELAY_MS, kind |-> "CONFIRM_ORDER"],
                   [due |-> PROCESS_PAYMENT_EVENT_DELAY_MS, kind |-> "PROCESS_PAYMENT"],
                   [due |-> WORKFLOW_DONE_DELAY_MS, kind |-> "stop"] },
      stopped |-> <<>>,
      results |-> 0 ]

\* t is a pending timer that no other pending timer precedes
OrderNextTimer(t) ==
    /\ "xstate-order-script" \in running
    /\ t \in orderClock.timers
    /\ \A u \in orderClock.timers : t.due <= u.due

\* a setTimeout callback of the script sends its event
OrderScriptSend ==
    /\ \E t \in orderClock.timers :
         /\ OrderNextTimer(t)
         /\ t.kind \in {"CONFIRM_ORDER", "PROCESS_PAYMENT", "SHIP_ORDER"}
         /\ LET next == ActorReceive(orderActor, OrderOn(orderActor, t.kind))
            IN  /\ orderActor' = next
                /\ orderClock' = OrderClockUpdate(orderClock, t, orderActor, next)
    /\ UNCHANGED <<running, outcomes, exampleVars, chatVars, basicVars, retryVars,
                   mastraOrder, langgraphOrder, chatbotClock, fetchClock>>

\* the delayed transition of the state the actor is in runs
OrderScriptAfter ==
    /\ \E t \in orderClock.timers :
         /\ OrderNextTimer(t)
         /\ t.kind = "after"
         /\ orderActor.attempts <= Len(outcomes)
         /\ LET next ==
                  ActorReceive(orderActor,
                    CASE orderActor.value = "processing_payment"
                           -> OrderAfterPaymentDelay(orderActor,
                                                     outcomes[orderActor.attempts])
                      [] orderActor.value = "payment_failed"
                           -> OrderAfterRetryDelay(orderActor)
                      [] orderActor.value = "shipping"
                           -> OrderAfterShippingDelay(orderActor))
            IN  /\ orderActor' = next
                /\ orderClock' =
                     [ OrderClockUpdate(orderClock, t, orderActor, next) EXCEPT
                         !.results = IF orderActor.value = "processing_payment"
                                     THEN @ + 1 ELSE @ ]
    /\ UNCHANGED <<running, outcomes, exampleVars, chatVars, basicVars, retryVars,
                   mastraOrder, langgraphOrder, chatbotClock, fetchClock>>

\* the last setTimeout callback prints that the workflow is complete and
\* calls orderActor.stop(), which also cancels the delayed transition
OrderScriptStop ==
    /\ \E t \in orderClock.timers :
         /\ OrderNextTimer(t)
         /\ t.kind = "stop"
         /\ orderActor' =
              IF orderActor.status = "active"
              THEN [orderActor EXCEPT !.status = "stopped", !.timer = "none"]
              ELSE orderActor
         /\ orderClock' =
              [ orderClock EXCEPT
                  !.now = t.due,
                  !.timers = { u \in @ \ {t} : u.kind # "after" },
                  !.stopped = <<orderActor.value>> ]
    /\ UNCHANGED <<running, outcomes, exampleVars, chatVars, basicVars, retryVars,
                   mastraOrder, langgraphOrder, chatbotClock, fetchClock>>

OrderScriptNext == OrderScriptSend \/ OrderScriptAfter \/ OrderScriptStop

(***************************************************************************)
(* 03-workflow-comparison: runXStateChatbot, the script that drives        *)
(* chatbotActor by timers, with the mock LLM                               *)
(*                                                                         *)
(* chatbotClock is the record [now, timers]: now is the time in ms since   *)
(* the script started, timers the set of pending timers [due, kind]: kind  *)
(* 'send' for the setTimeout the loop awaits before it sends the next      *)
(* message, 'llm' for the one callLLMMock awaits before it returns or      *)
(* throws, 'after' for the delayed transition of error, 'stop' for the     *)
(* last one.  Timers run in the order of their due times.                  *)
(***************************************************************************)
LLM_CALL_DELAY_MS == 1000

RETRY_DELAY_MS == 1500

\* the three messages of the script (shortened)
ChatbotMessages ==
    << <<"H", "e", "l", "l", "o", "!">>, <<"F", "S", "M">>, <<"X", "S", "t", "a", "t", "e">> >>

\* the timer a state starts when it is entered: the call of the mock LLM
\* invoked in calling_llm, the delayed transition of error
ChatbotTimers(value, now) ==
    CASE value = "calling_llm" -> {[due |-> now + LLM_CALL_DELAY_MS, kind |-> "llm"]}
      [] value = "error"       -> {[due |-> now + RETRY_DELAY_MS, kind |-> "after"]}
      [] OTHER -> {}

\* what the loop of the script does once it has sent message number `sent`:
\* it awaits sent * 3000 ms before the next message, or sets the last timer
ChatbotLoop(sent, now) ==
    IF sent < Len(script)
    THEN {[due |-> now + sent * 3000, kind |-> "send"]}
    ELSE {[due |-> now + 10000, kind |-> "stop"]}

\* the clock after timer t ran and took the actor from `actor` to `next`
ChatbotClockUpdate(clock, t, actor, next) ==
    LET rest == clock.timers \ {t}
        moved == next.value # actor.value
    IN  [ now |-> t.due,
          timers |-> (IF moved THEN { u \in rest : u.kind \notin {"llm", "after"} }
                      ELSE rest)
                       \cup (IF moved THEN ChatbotTimers(next.value, t.due) ELSE {})
                       \cup (IF next.sent # actor.sent
                             THEN ChatbotLoop(next.sent, t.due) ELSE {}) ]

\* start(), and the loop awaiting 0 ms before the first message
ChatbotClockInit ==
    [ now |-> 0, timers |-> {[due |-> 0, kind |-> "send"]} ]

\* t is a pending timer that no other pending timer precedes
ChatbotNextTimer(t) ==
    /\ "chatbot-xstate-script" \in running
    /\ t \in chatbotClock.timers
    /\ \A u \in chatbotClock.timers : t.due <= u.due

\* the loop sends the next message
ChatbotScriptSend ==
    /\ \E t \in chatbotClock.timers :
         /\ ChatbotNextTimer(t)
         /\ t.kind = "send"
         /\ LET event == [ type |-> "SEND_MESSAGE",
                           message |-> script[chatbotActor.sent + 1] ]
                sender == [chatbotActor EXCEPT !.sent = @ + 1]
                next == ActorReceive(sender, ChatbotOn(sender, event))
            IN  /\ next.llmCalls <= Len(outcomes)
                /\ chatbotActor' = next
                /\ chatbotClock' = ChatbotClockUpdate(chatbotClock, t, chatbotActor, next)
    /\ UNCHANGED <<running, outcomes, exampleVars, staticVars, script, chatActor,
                   mastraChat, langgraphChat, orderClock, fetchClock>>

\* the mock LLM returns or throws, and the invoked promise settles
ChatbotScriptSettle ==
    /\ \E t \in chatbotClock.timers :
         /\ ChatbotNextTimer(t)
         /\ t.kind = "llm"
         /\ LET actor == [chatbotActor EXCEPT !.inflight = FALSE]
                next == ActorReceive(actor, IF outcomes[chatbotActor.llmCalls]
                                            THEN ChatbotOnDone(actor)
                                            ELSE ChatbotOnError(actor))
            IN  /\ chatbotActor' = next
                /\ chatbotClock' = ChatbotClockUpdate(chatbotClock, t, chatbotActor, next)
    /\ UNCHANGED <<running, outcomes, exampleVars, staticVars, script, chatActor,
                   mastraChat, langgraphChat, orderClock, fetchClock>>

\* the delayed transition of error runs
ChatbotScriptAfter ==
    /\ \E t \in chatbotClock.timers :
         /\ ChatbotNextTimer(t)
         /\ t.kind = "after"
         /\ LET next == ActorReceive(chatbotActor,
                                     ChatbotAfter(chatbotActor, chatbotActor.visits))
            IN  /\ next.llmCalls <= Len(outcomes)
                /\ chatbotActor' = next
                /\ chatbotClock' = ChatbotClockUpdate(chatbotClock, t, chatbotActor, next)
    /\ UNCHANGED <<running, outcomes, exampleVars, staticVars, script, chatActor,
                   mastraChat, langgraphChat, orderClock, fetchClock>>

\* the last timer calls chatActor.stop() and process.exit(0)
ChatbotScriptStop ==
    /\ \E t \in chatbotClock.timers :
         /\ ChatbotNextTimer(t)
         /\ t.kind = "stop"
         /\ chatbotActor' =
              IF chatbotActor.status = "active"
              THEN [chatbotActor EXCEPT !.status = "stopped", !.timers = {}]
              ELSE chatbotActor
         /\ chatbotClock' = [now |-> t.due, timers |-> {}]
    /\ UNCHANGED <<running, outcomes, exampleVars, staticVars, script, chatActor,
                   mastraChat, langgraphChat, orderClock, fetchClock>>

ChatbotScriptNext ==
    \/ ChatbotScriptSend
    \/ ChatbotScriptSettle
    \/ ChatbotScriptAfter
    \/ ChatbotScriptStop

(***************************************************************************)
(* 02-xstate-examples: the script that drives fetchActor                   *)
(*                                                                         *)
(* fetchClock is the record [now, timers]: now is the time in ms since the *)
(* script started, timers the set of pending timers [due, kind]: kind      *)
(* 'fetch' for the delay of fetchUser, 'RETRY' for the timer attemptFetch  *)
(* sets in failure, 'stop' for the one the subscriber sets in success.     *)
(***************************************************************************)
FETCH_DELAY_MS == 1000

\* the timers set while the actor takes a snapshot with `value`: fetchUser
\* is invoked when loading is entered; the second subscriber calls
\* attemptFetch in failure and sets the stop timer in success, and does
\* nothing in any other state
FetchSubscriber(value, now) ==
    CASE value = "loading" -> {[due |-> now + FETCH_DELAY_MS, kind |-> "fetch"]}
      [] value = "failure" -> {[due |-> now + 1000, kind |-> "RETRY"]}
      [] value = "success" -> {[due |-> now + 2000, kind |-> "stop"]}
      [] OTHER -> {}

\* start(); attemptFetch has not been called yet
FetchClockInit == [now |-> 0, timers |-> {}]

\* the first call of attemptFetch sends FETCH in idle
FetchScriptStart ==
    /\ "fetch-example-script" \in running
    /\ fetchActor.value = "idle"
    /\ fetchActor' = FetchOn(fetchActor, "FETCH")
    /\ fetchClock' = [fetchClock EXCEPT !.timers = FetchSubscriber("loading", 0)]
    /\ UNCHANGED <<running, outcomes, exampleVars, chatVars, basicVars, orderVars,
                   externalOrder, orderClock, chatbotClock>>

\* a timer runs: fetchUser returns or throws and the promise settles, or
\* the timer of attemptFetch sends RETRY
FetchScriptTimer ==
    /\ "fetch-example-script" \in running
    /\ \E t \in fetchClock.timers :
         /\ \A u \in fetchClock.timers : t.due <= u.due
         /\ t.kind \in {"fetch", "RETRY"}
         /\ LET next == CASE t.kind = "RETRY" -> FetchOn(fetchActor, "RETRY")
                          [] outcomes[fetchActor.calls] -> FetchOnDone(fetchActor)
                          [] OTHER -> FetchOnError(fetchActor)
            IN  /\ fetchActor' = next
                /\ fetchClock' =
                     [ now |-> t.due,
                       timers |-> (fetchClock.timers \ {t})
                                    \cup FetchSubscriber(next.value, t.due) ]
    /\ UNCHANGED <<running, outcomes, exampleVars, chatVars, basicVars, orderVars,
                   externalOrder, orderClock, chatbotClock>>

\* the timer set in success calls fetchActor.stop()
FetchScriptStop ==
    /\ "fetch-example-script" \in running
    /\ \E t \in fetchClock.timers :
         /\ \A u \in fetchClock.timers : t.due <= u.due
         /\ t.kind = "stop"
         /\ fetchActor' = [fetchActor EXCEPT !.status = "stopped"]
         /\ fetchClock' = [now |-> t.due, timers |-> fetchClock.timers \ {t}]
    /\ UNCHANGED <<running, outcomes, exampleVars, chatVars, basicVars, orderVars,
                   externalOrder, orderClock, chatbotClock>>

FetchScriptNext == FetchScriptStart \/ FetchScriptTimer \/ FetchScriptStop

(***************************************************************************)
(* Specifications                                                          *)
(***************************************************************************)
\* the programs that draw random numbers or make calls that may fail
RandomPrograms ==
    { "xstate-order", "mastra-order", "langgraph-order", "fetch-example",
      "xstate-order-external", "xstate-order-script", "chatbot-xstate-script",
      "fetch-example-script",
      "llm-chat", "chatbot-xstate", "chatbot-mastra",
      "chatbot-langgraph" }

\* the programs that send chat messages
ChatPrograms == {"llm-chat", "chatbot-xstate", "chatbot-mastra", "chatbot-langgraph"}

\* the state right after the programs of one element of `configs` started
Start(configs) ==
    /\ running \in configs
    /\ outcomes \in IF running \cap RandomPrograms = {}
                    THEN {<<>>}
                    ELSE [1..MaxOutcomes -> BOOLEAN]
    /\ IF "simple-toggle" \in running THEN ToggleInit ELSE ToggleIdle
    /\ IF "traffic-light" \in running THEN TrafficInit ELSE TrafficIdle
    /\ orderActor = OrderActorInit
    /\ mastraOrder = MastraOrderInit
    /\ langgraphOrder = LanggraphOrderInit
    /\ fetchActor = FetchActorInit
    /\ externalOrder = ExternalOrderInit
    /\ script \in IF "chatbot-xstate-script" \in running THEN {ChatbotMessages}
                   ELSE IF running \cap ChatPrograms = {} THEN {<<>>}
                   ELSE Scripts
    /\ chatActor = ChatActorInit
    /\ chatbotActor = ChatbotActorInit
    /\ mastraChat = MastraChatInit
    /\ langgraphChat = LanggraphChatInit
    /\ game = GameInit
    /\ playerActor = PlayerActorInit
    /\ toggleActor = ToggleActorInit
    /\ counterActor = CounterActorInit
    /\ formActor = FormActorInit
    /\ orderClock = OrderClockInit
    /\ chatbotClock = ChatbotClockInit
    /\ fetchClock = FetchClockInit

\* one of the two hand-written FSM scripts
InitBasic == Start({{"simple-toggle"}, {"traffic-light"}})

NextBasic == ToggleStep \/ TrafficStep

SpecBasic == InitBasic /\ [][NextBasic]_vars

\* the three order workflows, run on the same payment outcomes
InitOrders == Start({{"xstate-order", "mastra-order", "langgraph-order"}})

NextOrders == OrderActorNext \/ MastraOrderNext \/ LanggraphOrderNext

SpecOrders == InitOrders /\ [][NextOrders]_vars

\* the same, where a workflow run that can take a step eventually takes one
SpecOrdersFair == SpecOrders /\ WF_vars(MastraOrderNext)

\* the same, where a graph whose next node can run eventually runs it
SpecLanggraphFair == SpecOrders /\ WF_vars(LanggraphOrderNext)

\* the XState programs that retry: the order and the fetch program side by
\* side, or one of the others alone
Init ==
    Start({ {"xstate-order", "fetch-example"}, {"xstate-order-external"},
            {"llm-chat"}, {"chatbot-xstate"} })

Next ==
    \/ OrderActorNext
    \/ FetchActorNext
    \/ ExternalOrderNext
    \/ ChatActorNext
    \/ ChatbotActorNext

Spec == Init /\ [][Next]_vars

\* the three chatbot demos, given the same message and the same outcomes of
\* the LLM calls
InitChatbots ==
    /\ Start({{"chatbot-xstate", "chatbot-mastra", "chatbot-langgraph"}})
    /\ Len(script) = 1

NextChatbots == ChatbotDemoNext \/ MastraChatNext \/ LanggraphChatNext

SpecChatbots == InitChatbots /\ [][NextChatbots]_vars

\* the order script (retryCount version) with its timers
InitOrderScript == Start({{"xstate-order-script"}})

SpecOrderScript == InitOrderScript /\ [][OrderScriptNext]_vars

\* runXStateChatbot with its timers
InitChatbotScript == Start({{"chatbot-xstate-script"}})

SpecChatbotScript == InitChatbotScript /\ [][ChatbotScriptNext]_vars

\* the fetch script with its timers
InitFetchScript == Start({{"fetch-example-script"}})

SpecFetchScript == InitFetchScript /\ [][FetchScriptNext]_vars

\* one of the three chatbots, with a script of one or two messages; the
\* client of the XState machine also sends RETRY and RESET
InitEachChatbot ==
    Start({{"chatbot-xstate"}, {"chatbot-mastra"}, {"chatbot-langgraph"}})

NextEachChatbot == ChatbotActorNext \/ MastraChatNext \/ LanggraphChatNext

SpecEachChatbot == InitEachChatbot /\ [][NextEachChatbot]_vars

\* the same, where a timer that is due eventually runs
SpecFair == Spec /\ WF_vars(ExternalOrderNext)

\* one of the example programs of 02-xstate-examples and 04-advanced-topics
InitExamples ==
    Start({ {"state-persistence"}, {"hierarchical-states"}, {"basic-machine/toggle"},
            {"basic-machine/counter"}, {"form-validation"} })

NextExamples == GameNext \/ PlayerNext \/ BasicMachineNext \/ FormNext

SpecExamples == InitExamples /\ [][NextExamples]_vars

(***************************************************************************)
(* C1  ToggleFSM                                                           *)
(***************************************************************************)
CountOf(evs, e) == Cardinality({ i \in 1..Len(evs) : evs[i] = e })

\* the states the toggle went through: the initial one, then one per call
ToggleVisited == <<toggle.initialState>> \o toggle.observed

\* C1: started in the default state OFF, the toggle is ON exactly after an
\* odd number of TOGGLE events; three TOGGLEs are observed as ON, OFF, ON;
\* and two TOGGLEs in a row lead back to the state they started from,
\* whatever state that is.
C1_ToggleParity ==
    "simple-toggle" \in running =>
      /\ toggle.initialState = "OFF" =>
           (toggle.currentState = "ON" <=> CountOf(toggle.events, "TOGGLE") % 2 = 1)
      /\ (toggle.initialState = "OFF" /\ toggle.events = <<"TOGGLE", "TOGGLE", "TOGGLE">>)
           => toggle.observed = <<"ON", "OFF", "ON">>
      /\ \A i \in 1..(Len(toggle.events) - 1) :
           (toggle.events[i] = "TOGGLE" /\ toggle.events[i + 1] = "TOGGLE")
             => ToggleVisited[i + 2] = ToggleVisited[i]

C1_Witness ==
    /\ "simple-toggle" \in running
    /\ toggle.initialState = "OFF"
    /\ toggle.events = <<"TOGGLE", "TOGGLE", "TOGGLE">>
    /\ toggle.currentState = "ON"

(***************************************************************************)
(* C2  TrafficLightFSM                                                     *)
(***************************************************************************)
TrafficVisited == <<trafficLight.initialState>> \o trafficLight.observed

TrafficCycle == <<"GREEN", "YELLOW", "RED">>

\* C2: started in RED, the k-th of k successive NEXT events yields the k-th
\* state of GREEN, YELLOW, RED, GREEN, ...; three NEXT events in a row lead
\* back to the state they started from, whatever it is; and no NEXT event
\* goes RED -> YELLOW, GREEN -> RED or YELLOW -> GREEN.
C2_TrafficCycle ==
    "traffic-light" \in running =>
      /\ \A k \in 1..Len(trafficLight.events) :
           (/\ trafficLight.initialState = "RED"
            /\ \A j \in 1..k : trafficLight.events[j] = "NEXT")
             => trafficLight.observed[k] = TrafficCycle[((k - 1) % 3) + 1]
      /\ \A i \in 1..(Len(trafficLight.events) - 2) :
           (\A j \in i..(i + 2) : trafficLight.events[j] = "NEXT")
             => TrafficVisited[i + 3] = TrafficVisited[i]
      /\ \A i \in 1..Len(trafficLight.events) :
           trafficLight.events[i] = "NEXT" =>
             <<TrafficVisited[i], TrafficVisited[i + 1]>> \notin
               { <<"RED", "YELLOW">>, <<"GREEN", "RED">>, <<"YELLOW", "GREEN">> }

C2_Witness ==
    /\ "traffic-light" \in running
    /\ trafficLight.initialState = "RED"
    /\ trafficLight.events = <<"NEXT", "NEXT", "NEXT", "NEXT">>
    /\ trafficLight.observed = <<"GREEN", "YELLOW", "RED", "GREEN">>

(***************************************************************************)
(* C3  orderMachine gives up after the third payment failure               *)
(***************************************************************************)
\* the first n payment outcomes are failures
FirstFail(n) == \A k \in 1..n : ~outcomes[k]

\* C3: in the XState order machine with MAX_PAYMENT_RETRIES = 3,
\* processing_payment is entered at most three times for an order, and when
\* the machine rests in payment_failed after the third consecutive failure
\* the only state it goes to from there is canceled.
C3_CanceledAfterThirdFailure ==
    /\ [](orderActor.attempts <= MAX_PAYMENT_RETRIES)
    /\ [][ ( /\ orderActor.value = "payment_failed"
             /\ orderActor.attempts = MAX_PAYMENT_RETRIES
             /\ orderActor'.value # orderActor.value )
           => ( /\ orderActor'.value = "canceled"
                /\ orderActor'.status = "done"
                /\ orderActor'.attempts = MAX_PAYMENT_RETRIES ) ]_vars

C3_Witness ==
    /\ "xstate-order" \in running
    /\ FirstFail(3)
    /\ orderActor.value = "canceled"
    /\ orderActor.context = [orderStatus |-> "canceled", retryCount |-> 3]
    /\ orderActor.attempts = 3

(***************************************************************************)
(* C7  the three order workflows on the same payment outcomes              *)
(***************************************************************************)
\* the two workflow runs have ended
WorkflowOrdersFinished ==
    /\ {"xstate-order", "mastra-order", "langgraph-order"} \subseteq running
    /\ mastraOrder.pc = "done"
    /\ langgraphOrder.node = "__end__"

\* the XState actor has reached a final state after a payment attempt
XStateOrderFinished == orderActor.status = "done" /\ orderActor.attempts >= 1

\* C7: run on the same sequence of payment outcomes, the XState, Mastra and
\* LangGraph order workflows make the same number of payment attempts and
\* finish with the same orderStatus, delivered when a payment succeeded and
\* canceled when the three attempts failed.
C7_SameOrderOutcome ==
    WorkflowOrdersFinished =>
      /\ mastraOrder.attempts = langgraphOrder.attempts
      /\ mastraOrder.state.orderStatus = langgraphOrder.state.orderStatus
      /\ mastraOrder.state.orderStatus =
           IF FirstFail(MAX_PAYMENT_RETRIES) THEN "canceled" ELSE "delivered"
      /\ XStateOrderFinished =>
           /\ orderActor.attempts = mastraOrder.attempts
           /\ orderActor.context.orderStatus = mastraOrder.state.orderStatus

(***************************************************************************)
(* C10  the Mastra order workflow                                          *)
(***************************************************************************)
\* process-payment has returned
MastraPaymentReturned == mastraOrder.pc \in {"ship-order", "deliver-order", "done"}

C10_Safe ==
    "mastra-order" \in running =>
      /\ mastraOrder.attempts <= MAX_PAYMENT_RETRIES
      /\ (MastraPaymentReturned /\ FirstFail(MAX_PAYMENT_RETRIES)) =>
            /\ mastraOrder.attempts = MAX_PAYMENT_RETRIES
            /\ mastraOrder.state =
                 [orderStatus |-> "canceled", retryCount |-> MAX_PAYMENT_RETRIES]
      /\ (MastraPaymentReturned /\ ~FirstFail(MAX_PAYMENT_RETRIES)) =>
            /\ mastraOrder.attempts < MAX_PAYMENT_RETRIES
               \/ outcomes[MAX_PAYMENT_RETRIES]
            /\ mastraOrder.state.orderStatus \in {"paid", "shipping", "delivered"}
      /\ mastraOrder.pc = "done" =>
            mastraOrder.state.orderStatus \in {"delivered", "canceled"}

\* C10: in the Mastra order workflow, three failed payments make
\* process-payment return orderStatus canceled after exactly three attempts,
\* ship-order and deliver-order hand that state on unchanged and it is the
\* result of the run; every run ends, with orderStatus delivered or canceled.
C10_MastraOrderTerminates ==
    /\ []C10_Safe
    /\ <>(mastraOrder.pc = "done")

C10_Witness ==
    /\ "mastra-order" \in running
    /\ FirstFail(3)
    /\ mastraOrder.pc = "done"
    /\ mastraOrder.state = [orderStatus |-> "canceled", retryCount |-> 3]
    /\ mastraOrder.attempts = 3

(***************************************************************************)
(* C6  fetchMachine: bound of the retry counter                            *)
(***************************************************************************)
\* C6: in the fetch machine, for every sequence of FETCH and RETRY events
\* and fetch outcomes, retryCount never exceeds MAX_RETRIES, and loading is
\* never entered with the retry budget used up (from failure with retryCount
\* = MAX_RETRIES the way back to loading leads through error, which resets
\* retryCount).
C6_RetryCountBounded ==
    "fetch-example" \in running =>
      /\ fetchActor.context.retryCount <= MAX_RETRIES
      /\ fetchActor.value = "loading" => fetchActor.context.retryCount < MAX_RETRIES

(***************************************************************************)
(* C9  the retry counter is reset on success                               *)
(***************************************************************************)
\* C9: in the fetch machine and in the XState order machine, an operation
\* that succeeds (after earlier failures or not) leaves the machine in its
\* success state with retryCount = 0: success, resp. paid and the states
\* after it, imply retryCount = 0.
C9_ResetOnSuccess ==
    /\ "fetch-example" \in running =>
         /\ fetchActor.value = "success" =>
               fetchActor.context = [data |-> "User 1", error |-> "null", retryCount |-> 0]
         /\ ( /\ fetchActor.calls >= 1
              /\ fetchActor.value # "loading"
              /\ outcomes[fetchActor.calls] ) => fetchActor.value = "success"
    /\ "xstate-order" \in running =>
         /\ orderActor.value \in {"paid", "shipping", "delivered"} =>
               orderActor.context.retryCount = 0
         /\ ( /\ orderActor.attempts >= 1
              /\ orderActor.value # "processing_payment"
              /\ outcomes[orderActor.attempts] ) =>
               orderActor.value \in {"paid", "shipping", "delivered"}

C9_Witness ==
    /\ {"fetch-example", "xstate-order"} \subseteq running
    /\ ~outcomes[1] /\ ~outcomes[2] /\ outcomes[3]
    /\ fetchActor.value = "success"
    /\ fetchActor.calls = 3
    /\ fetchActor.context.retryCount = 0
    /\ orderActor.value = "paid"
    /\ orderActor.attempts = 3
    /\ orderActor.context.retryCount = 0

(***************************************************************************)
(* C5  the order program that retries from outside the machine             *)
(***************************************************************************)
\* the number of retries the documentation gives for a failing payment
DocumentedMaxRetries == 3

C4_AtMostThreeCalls ==
    /\ ("llm-chat" \in running /\ ~chatActor.manual) =>
         chatActor.calls <= 3
    /\ ("chatbot-xstate" \in running /\ ~chatbotActor.manual) =>
         chatbotActor.calls <= MAX_LLM_RETRIES

(***************************************************************************)
(* C8  the three chatbots on the same message and the same outcomes        *)
(***************************************************************************)
\* the three chatbots have dealt with the first message of the script, which
\* is not empty after trimming
ChatbotsAnswered ==
    /\ {"chatbot-xstate", "chatbot-mastra", "chatbot-langgraph"} \subseteq running
    /\ Len(Trim(script[1])) > 0
    /\ chatbotActor.accepted = 1
    /\ chatbotActor.value \in {"response_ready", "failed"}
    /\ Len(mastraChat.results) >= 1
    /\ Len(langgraphChat.results) >= 1

\* C8: given the same non-empty message and the same sequence of LLM call
\* outcomes, the XState, Mastra and LangGraph chatbots make the same number
\* of LLM calls and end alike: the response is delivered by all three or
\* all three fail.
C8_SameChatbotOutcome ==
    ChatbotsAnswered =>
      /\ chatbotActor.calls = mastraChat.results[1].calls
      /\ mastraChat.results[1].calls = langgraphChat.results[1].calls
      /\ mastraChat.results[1].status = langgraphChat.results[1].status
      /\ mastraChat.results[1].status =
           IF chatbotActor.value = "response_ready" THEN "success" ELSE "failed"

(***************************************************************************)
(* C11  fetchMachine: the two transitions of failure.on.RETRY              *)
(***************************************************************************)
\* C11: in failure a RETRY event leads to loading (context unchanged) iff
\* retryCount < MAX_RETRIES and to error otherwise, and error is never
\* entered while the guard of the first transition is true.
C11_RetryGuardOrder ==
    "fetch-example" \in running =>
      /\ fetchActor.value = "failure" =>
           /\ FetchOn(fetchActor, "RETRY").value =
                IF fetchActor.context.retryCount < MAX_RETRIES
                THEN "loading" ELSE "error"
           /\ FetchOn(fetchActor, "RETRY").context = fetchActor.context
      /\ fetchActor.value = "error" =>
           fetchActor.context.retryCount >= MAX_RETRIES

C11_Witness ==
    /\ "fetch-example" \in running
    /\ fetchActor.value = "error"
    /\ fetchActor.calls = 3
    /\ fetchActor.context.retryCount = MAX_RETRIES

\* the only delayed transition pending is that of the current visit to
\* error, and none was ever taken for another visit
TimerOfThisVisit(actor) ==
    /\ ~actor.stale
    /\ actor.timers \subseteq
         (IF actor.value = "error" /\ actor.status = "active"
          THEN {actor.visits} ELSE {})

\* a step from error to calling_llm adds exactly one to retryCount and
\* leaves no delayed transition pending
RetryOnce(actor, next) ==
    actor.value = "error" /\ next.value = "calling_llm" =>
      /\ next.context.retryCount = actor.context.retryCount + 1
      /\ next.timers = {}

\* C12: in both chat machines a RETRY event taken in error leads to
\* calling_llm with retryCount incremented exactly once and cancels the
\* delayed transition armed by that visit to error: it is never pending
\* outside that visit and never taken during a later visit.
C12_RetryCancelsTimer ==
    /\ [](/\ TimerOfThisVisit(chatActor)
          /\ TimerOfThisVisit(chatbotActor)
          /\ chatActor.value = "error" =>
               ChatOn(chatActor, [type |-> "RETRY"]).value = "calling_llm"
          /\ chatbotActor.value = "error" =>
               ChatbotOn(chatbotActor, [type |-> "RETRY"]).value = "calling_llm")
    /\ [][RetryOnce(chatActor, chatActor') /\ RetryOnce(chatbotActor, chatbotActor')]_vars

C12_Witness ==
    /\ "llm-chat" \in running
    /\ chatActor.manual
    /\ chatActor.value = "error"
    /\ chatActor.visits = 2
    /\ chatActor.timers = {2}
    /\ chatActor.context.retryCount = 1

\* a stopped actor keeps its snapshot and calls no subscriber
Inert(actor, next) ==
    actor.status = "stopped" =>
      /\ next.value = actor.value
      /\ next.context = actor.context
      /\ next.status = "stopped"
      /\ next.notified = actor.notified

\* C13: once stop() has run, the order actors and the chat actors keep
\* their state and context and call no subscriber, whatever is sent to
\* them and whichever promise settles, and no delayed transition is pending.
C13_StoppedIsInert ==
    /\ [](/\ orderActor.status = "stopped" => orderActor.timer = "none"
          /\ chatActor.status = "stopped" => chatActor.timers = {}
          /\ chatbotActor.status = "stopped" => chatbotActor.timers = {}
          /\ externalOrder.status = "stopped" =>
               \A t \in externalOrder.timers :
                  t.kind \notin {"after:payment", "after:shipping"})
    /\ [][/\ Inert(orderActor, orderActor')
          /\ Inert(chatActor, chatActor')
          /\ Inert(chatbotActor, chatbotActor')
          /\ externalOrder.status = "stopped" =>
               /\ externalOrder'.value = externalOrder.value
               /\ externalOrder'.context = externalOrder.context
               /\ externalOrder'.status = "stopped"
               /\ externalOrder'.timers \subseteq externalOrder.timers]_vars

C13_Witness ==
    /\ "xstate-order" \in running
    /\ orderActor.status = "stopped"
    /\ orderActor.value = "paid"
    /\ orderActor.dropped

\* an actor that has reached a final state keeps its snapshot and calls no
\* subscriber
Absorbed(actor, next) ==
    actor.status = "done" =>
      /\ next.value = actor.value
      /\ next.context = actor.context
      /\ next.status = "done"
      /\ next.notified = actor.notified

\* C14: the chatbot machine in failed and the order machine in delivered or
\* canceled have finished, and no later event changes their state or
\* context; a RESET sent in failed leaves the chatbot in failed.
C14_FinalIsAbsorbing ==
    /\ [](/\ chatbotActor.value = "failed" <=> chatbotActor.status = "done"
          /\ orderActor.value \in {"delivered", "canceled"} <=> orderActor.status = "done"
          /\ chatbotActor.value = "failed" =>
               ActorReceive(chatbotActor,
                            ChatbotOn(chatbotActor, [type |-> "RESET"])).value = "failed")
    /\ [][Absorbed(chatbotActor, chatbotActor') /\ Absorbed(orderActor, orderActor')]_vars

C14_Witness ==
    /\ "chatbot-xstate" \in running
    /\ chatbotActor.value = "failed"
    /\ chatbotActor.status = "done"
    /\ chatbotActor.dropped

\* <<c>> for the context c of a new actor of gameMachine to which LOAD_GAME
\* was sent with what loadSavedGame() makes of `file`; <<>> if that is null
LoadedContext(file) ==
    LET savedState == LoadSavedGame(file)
        fresh == GameFresh(game)
    IN  IF savedState = <<>> THEN <<>>
        ELSE << GameOn(fresh, [type |-> "LOAD_GAME", savedState |-> savedState[1]],
                       TRUE).context >>

\* C15: whenever SAVE has written the save file from a context of playing
\* or paused, loading the file into a new actor with LOAD_GAME gives a
\* context with the level, score, lives and playerName that were saved.
C15_SaveLoadRoundTrip ==
    "state-persistence" \in running /\ game.file # <<>> =>
      LoadedContext(game.file) = game.saved

InPowerOn(value) == Len(value) >= 1 /\ value[1] = "powerOn"

InPlaying(value) == Len(value) >= 2 /\ value[1] = "powerOn" /\ value[2] = "playing"

\* what the music player does with `event` taken in `value`, as far as the
\* common transitions and the mode transitions go
Bubbles(value, event, next) ==
    /\ InPowerOn(value) /\ event = "POWER_OFF" => next = <<"powerOff">>
    /\ InPlaying(value) /\ event = "PAUSE" => next = <<"powerOn", "paused">>
    /\ InPlaying(value) /\ event = "STOP" => next = <<"powerOn", "stopped">>
    /\ InPlaying(value) /\ event = "TOGGLE_REPEAT" =>
         next = <<"powerOn", "playing",
                  IF value[3] = "repeat" THEN "normal" ELSE "repeat">>
    /\ InPlaying(value) /\ event = "TOGGLE_SHUFFLE" =>
         next = <<"powerOn", "playing",
                  IF value[3] = "shuffle" THEN "normal" ELSE "shuffle">>

\* C16: sent to a running music player, POWER_OFF leads from every state
\* inside powerOn to powerOff, PAUSE and STOP lead from every mode of
\* playing to powerOn.paused and powerOn.stopped, and TOGGLE_REPEAT and
\* TOGGLE_SHUFFLE are handled by the active mode: the player stays in
\* playing and only the mode changes.
C16_EventBubbling ==
    [][ playerActor.status = "active" /\ playerActor'.events = playerActor.events + 1
          => Bubbles(playerActor.value, playerActor'.last, playerActor'.value) ]_vars

C16_Witness ==
    /\ "hierarchical-states" \in running
    /\ playerActor.status = "active"
    /\ playerActor.last = "POWER_OFF"
    /\ playerActor.before = <<"powerOn", "playing", "shuffle">>
    /\ playerActor.value = <<"powerOff">>

\* C17: the state value of the music player is one of powerOff,
\* powerOn.stopped, powerOn.paused, powerOn.playing.normal,
\* powerOn.playing.repeat and powerOn.playing.shuffle: a sub-state of
\* powerOn is active iff powerOn is, a mode of playing iff playing is.
C17_PlayerConfiguration ==
    LET value == playerActor.value
    IN  /\ value \in { <<"powerOff">>, <<"powerOn", "stopped">>, <<"powerOn", "paused">>,
                        <<"powerOn", "playing", "normal">>,
                        <<"powerOn", "playing", "repeat">>,
                        <<"powerOn", "playing", "shuffle">> }
        /\ Len(value) >= 2 <=> InPowerOn(value)
        /\ Len(value) = 3 <=> InPlaying(value)

C17_Witness ==
    /\ "hierarchical-states" \in running
    /\ playerActor.value = <<"powerOn", "playing", "repeat">>
    /\ playerActor.before = <<"powerOn", "playing", "shuffle">>
    /\ playerActor.events = MaxSent

\* the subscriber of a running actor is called once for every event sent,
\* with the snapshot the event led to, and the calls follow the events
NotifiedPerEvent(actor, next, line) ==
    actor.status = "active" /\ next.sent # actor.sent =>
      next.printed = Append(actor.printed, line)

\* C18: a subscriber registered before start() is called once with the
\* initial snapshot and once after every event the running actor is sent,
\* in the order of the events, also when the event changes nothing or only
\* the context; for the events of the script the toggle actor prints
\* inactive, active, inactive, active and the counter actor 0, 1, 2, 3, 2, 0.
C18_SubscriberNotified ==
    /\ [](/\ toggleActor.status = "active" =>
               /\ Len(toggleActor.printed) = Len(toggleActor.sent) + 1
               /\ toggleActor.printed[1] = "inactive"
          /\ counterActor.status = "active" =>
               /\ Len(counterActor.printed) = Len(counterActor.sent) + 1
               /\ counterActor.printed[1] = 0
          /\ toggleActor.status = "active"
               /\ toggleActor.sent = <<"TOGGLE", "TOGGLE", "TOGGLE">> =>
                 toggleActor.printed = <<"inactive", "active", "inactive", "active">>
          /\ counterActor.status = "active"
               /\ counterActor.sent = << "INCREMENT", "INCREMENT", "INCREMENT",
                                         "DECREMENT", "RESET" >> =>
                 counterActor.printed = <<0, 1, 2, 3, 2, 0>>)
    /\ [][/\ NotifiedPerEvent(toggleActor, toggleActor', toggleActor'.value)
          /\ NotifiedPerEvent(counterActor, counterActor',
                              counterActor'.context.count)]_vars

C18_Witness ==
    /\ "basic-machine/counter" \in running
    /\ counterActor.status = "active"
    /\ counterActor.sent = <<"INCREMENT", "INCREMENT", "INCREMENT", "DECREMENT", "RESET">>
    /\ counterActor.printed = <<0, 1, 2, 3, 2, 0>>

\* the position of the last RESET in a sequence of events, 0 if there is none
LastReset(events) ==
    IF \E i \in 1..Len(events) : events[i] = "RESET"
    THEN CHOOSE i \in 1..Len(events) :
           /\ events[i] = "RESET"
           /\ \A j \in (i + 1)..Len(events) : events[j] # "RESET"
    ELSE 0

\* the number of positions after `from` at which `events` holds `event`
CountAfter(events, from, event) ==
    Cardinality({i \in (from + 1)..Len(events) : events[i] = event})

\* C19: after any sequence of INCREMENT, DECREMENT and RESET events the
\* count of the running counter actor is the number of INCREMENT events
\* minus the number of DECREMENT events since the last RESET (since the
\* start if there was none), which may be negative, and its state is active.
C19_CounterValue ==
    counterActor.status = "active" =>
      /\ counterActor.value = "active"
      /\ counterActor.context.count =
           CountAfter(counterActor.sent, LastReset(counterActor.sent), "INCREMENT")
             - CountAfter(counterActor.sent, LastReset(counterActor.sent), "DECREMENT")

C19_Witness ==
    /\ "basic-machine/counter" \in running
    /\ counterActor.status = "active"
    /\ counterActor.sent = <<"INCREMENT", "RESET", "DECREMENT", "DECREMENT">>
    /\ counterActor.context.count = -2

EmailOk(context) == context.email # <<>> /\ EmailRegexTest(context.email)

PasswordOk(context) == Len(context.password) >= MIN_PASSWORD_LENGTH

\* what SUBMIT makes of the form whose fields are those of `context`
Submitted(context, next) ==
    /\ next.value = IF EmailOk(context) /\ PasswordOk(context)
                    THEN "submitting" ELSE "error"
    /\ next.context.email = context.email
    /\ next.context.password = context.password
    /\ Len(next.context.errors) =
         (IF EmailOk(context) THEN 0 ELSE 1) + (IF PasswordOk(context) THEN 0 ELSE 1)
    /\ next.value = "submitting" <=> next.context.errors = <<>>

\* C20: SUBMIT in editing leads to submitting, with no errors, iff the
\* e-mail address is not empty and matches EMAIL_REGEX and the password has
\* at least MIN_PASSWORD_LENGTH characters, and otherwise to error with one
\* message for each invalid field; submitting has its delayed transition
\* pending and is left for success only.
C20_FormValidation ==
    /\ [](formActor.value = "submitting" /\ formActor.status = "active"
            => formActor.timer)
    /\ [][/\ formActor.status = "active" /\ formActor.value = "editing"
               /\ formActor'.value # "editing"
                 => Submitted(formActor.context, formActor')
          /\ formActor.value = "submitting" /\ formActor'.value # "submitting"
                 => formActor'.value = "success"]_vars

C20_Witness ==
    /\ "form-validation" \in running
    /\ formActor.value = "success"
    /\ formActor.context.email = <<"u", "@", "e", ".", "c", ".", "d">>
    /\ Len(formActor.context.password) = MIN_PASSWORD_LENGTH
    /\ formActor.context.errors = <<>>

\* the running form actor is sent `type`
FormTakes(type) ==
    /\ formActor.status = "active"
    /\ formActor'.events = formActor.events + 1
    /\ formActor'.last = type

\* C21: a RESET event sent to the form in error or in success leads to
\* editing with email, password and errors as they were at the start.
C21_FormReset ==
    [][ FormTakes("RESET") /\ formActor.value \in {"error", "success"} =>
          /\ formActor'.value = "editing"
          /\ formActor'.context = FormActorInit.context ]_vars

\* C22: an event other than TOGGLE leaves the currentState of a ToggleFSM
\* as it is, an event other than NEXT that of a TrafficLightFSM, and the
\* currentState is one of the declared states after every event sequence.
C22_UnsupportedEventIgnored ==
    /\ [](/\ toggle.currentState \in ToggleState
          /\ trafficLight.currentState \in TrafficState)
    /\ [][/\ Len(toggle'.events) > Len(toggle.events)
               /\ toggle'.events[Len(toggle'.events)] # "TOGGLE"
                 => toggle'.currentState = toggle.currentState
          /\ Len(trafficLight'.events) > Len(trafficLight.events)
               /\ trafficLight'.events[Len(trafficLight'.events)] # "NEXT"
                 => trafficLight'.currentState = trafficLight.currentState]_vars

C22_Witness ==
    /\ "traffic-light" \in running
    /\ trafficLight.initialState = "RED"
    /\ trafficLight.events = <<"NEXT", "TOGGLE", "TOGGLE", "NEXT">>
    /\ trafficLight.observed = <<"GREEN", "GREEN", "GREEN", "YELLOW">>

\* C23: the branch validating takes is decided by the errors its entry
\* action computes from the email and the password of the moment, never by
\* errors an earlier submission left in the context: SUBMIT in editing
\* leads to submitting exactly if both fields are valid, and to error
\* otherwise.
C23_GuardAfterEntry ==
    [][ FormTakes("SUBMIT") /\ formActor.value = "editing" =>
          LET valid == EmailOk(formActor.context) /\ PasswordOk(formActor.context)
          IN  /\ formActor'.value = IF valid THEN "submitting" ELSE "error"
              /\ formActor'.context.errors = <<>> <=> valid ]_vars

\* a submission that failed, corrected fields, and a SUBMIT that found the
\* old errors in the context and went to submitting
C23_Witness ==
    /\ "form-validation" \in running
    /\ formActor.value = "submitting"
    /\ formActor.last = "SUBMIT"
    /\ formActor.submitted # <<>>
    /\ formActor.submitted[1].errors # <<>>

\* C24: when the order script (retryCount version) calls stop() at
\* WORKFLOW_DONE_DELAY_MS, the actor has reached delivered or canceled,
\* whatever the payment outcomes were.
C24_DoneBeforeStop ==
    orderClock.stopped # <<>> => orderClock.stopped[1] \in OrderFinal

\* C25: a SEND_MESSAGE that chatMachine takes, in idle or in success, enters
\* calling_llm with retryCount = 0, however many retries the messages
\* before it used.
C25_FreshRetryBudget ==
    [][ ( /\ chatActor.status = "active"
          /\ chatActor'.sent = chatActor.sent + 1
          /\ chatActor.value \in {"idle", "success"} )
          => /\ chatActor'.value = "calling_llm"
             /\ chatActor'.context.retryCount = 0 ]_vars

\* C26: the retry counter of chatMachine and that of chatbotMachine never
\* exceed the maximum of 3, whatever events are sent and however the LLM
\* calls end.
C26_RetryCountBound ==
    /\ chatActor.context.retryCount <= 3
    /\ chatbotActor.context.retryCount <= MAX_LLM_RETRIES

\* C27: in runXStateChatbot every message is sent while the machine is in
\* waiting_input or response_ready, so the machine takes each of the three
\* messages, however the LLM calls end.
C27_EveryMessageTaken ==
    "chatbot-xstate-script" \in running =>
        chatbotActor.accepted = chatbotActor.sent

\* C28: the fetch script keeps the fetch going until it succeeds: in
\* failure it has a RETRY pending, in error it sends FETCH at once, so it
\* never has the actor in error, and it has no timer left only once the
\* actor was stopped after success.
C28_DriverRecovers ==
    "fetch-example-script" \in running =>
      /\ fetchActor.value # "error"
      /\ (fetchActor.value # "idle" /\ fetchClock.timers = {})
            => (fetchActor.value = "success" /\ fetchActor.status = "stopped")

\* the state a saving state was entered from
SavingOrigin(value) == IF value = "savingFromPlaying" THEN "playing" ELSE "paused"

\* C29: SAVE in playing enters savingFromPlaying and SAVE in paused enters
\* savingFromPaused, with the context as it is whether or not the file can
\* be written; while the actor is in a saving state an event sent to it
\* changes neither the state nor the context, and the delayed transition
\* leads back to the state SAVE was taken in, again with the same context.
C29_SaveReturns ==
    /\ [](game.value \in {"playing", "paused"} =>
            \A writable \in BOOLEAN :
              LET next == GameOn(game, [type |-> "SAVE"], writable)
              IN  /\ SavingOrigin(next.value) = game.value
                  /\ next.value \in GameDelayed
                  /\ next.context = game.context)
    /\ [][ game.status = "active" /\ game.value \in GameDelayed =>
            /\ game'.context = game.context
            /\ game'.value \in {game.value, SavingOrigin(game.value)}
            /\ game'.events # game.events => game'.value = game.value
            /\ game.timer = game.value ]_vars

C29_Witness ==
    /\ "state-persistence" \in running
    /\ game.status = "active"
    /\ game.value = "savingFromPaused"
    /\ game.file = <<>>
    /\ game.events >= 4

\* C30: the game is never in playing with lives <= 0: a step that brings
\* lives to 0 or below where playing would be entered or kept (LOSE_LIFE
\* on the last life, LOAD_GAME of a saved state with lives <= 0) ends in
\* gameOver; and in gameOver RESTART leads to menu and every other event
\* is ignored.
C30_GameOverGuard ==
    /\ [](/\ game.value = "playing" => game.context.lives > 0
          /\ game.value = "gameOver" =>
               \A event \in GameEvents, writable \in BOOLEAN :
                 GameOn(game, event, writable).value =
                   IF event.type = "RESTART" THEN "menu" ELSE "gameOver")
    /\ [][ /\ game'.context.lives <= 0 /\ game'.context # game.context
               => game'.value = "gameOver"
           /\ game.value = "gameOver" /\ game'.actor = game.actor
               => game'.value \in {"gameOver", "menu"} ]_vars

\* a saved state without lives was loaded in menu
C30_Witness ==
    /\ "state-persistence" \in running
    /\ game.value = "gameOver"
    /\ game.events = 1
    /\ game.context.lives = 0
    /\ game.context.level = 2

\* the text of a JSON number: an optional sign and decimal digits
NumberText(text) ==
    /\ text # <<>>
    /\ \A i \in 1..Len(text) :
         \/ \E d \in 1..10 : text[i] = Digits[d]
         \/ i = 1 /\ text[i] = "-" /\ Len(text) > 1

\* the text of a JSON string
StringText(text) == Len(text) >= 2 /\ text[1] = "\"" /\ text[Len(text)] = "\""

\* the save file is missing, is not JSON, or lacks a numeric level, score
\* or lives or a string playerName
BadSave(file) ==
    \/ file = <<>>
    \/ \E key \in DOMAIN file[1] : file[1][key] = <<"?">>
    \/ ~NumberText(file[1].level)
    \/ ~NumberText(file[1].score)
    \/ ~NumberText(file[1].lives)
    \/ ~StringText(file[1].playerName)

\* C31: when scenario 2 finds a save file that is missing, unreadable, not
\* JSON or without a numeric level, score and lives and a string
\* playerName, loadSavedGame returns null, no LOAD_GAME event is sent, and
\* the new actor is in menu with its initial context.
C31_BadSaveHarmless ==
    [][ (game.actor = 1 /\ game'.actor = 2 /\ BadSave(game.file)) =>
          /\ LoadSavedGame(game.file) = <<>>
          /\ game'.value = "menu"
          /\ game'.context = GameInit.context
          /\ game'.notified = GameInit.notified
          /\ game'.status = "active" ]_vars

\* the new actor, started where a save file without playerName lies
C31_Witness ==
    /\ "state-persistence" \in running
    /\ game.actor = 2
    /\ game.value = "menu"
    /\ game.events = 2
    /\ game.file # <<>>
    /\ game.file[1].playerName = <<>>

\* message number i of the script is empty once trimmed
Blank(i) == Trim(script[i]) = <<>>

\* C32: a message that is empty after trimming causes no LLM call and
\* leaves conversationHistory as it is in all three chatbots: the XState
\* machine that takes it is back in waiting_input, the Mastra and the
\* LangGraph workflow end with status failed.
C32_BlankMessageRejected ==
    /\ [](/\ \A i \in 1..Len(mastraChat.results) :
               Blank(i) => mastraChat.results[i] = [status |-> "failed", calls |-> 0]
          /\ \A i \in 1..Len(langgraphChat.results) :
               Blank(i) => langgraphChat.results[i] = [status |-> "failed", calls |-> 0])
    /\ [][ /\ (chatbotActor'.sent = chatbotActor.sent + 1 /\ Blank(chatbotActor'.sent))
               => /\ chatbotActor'.llmCalls = chatbotActor.llmCalls
                  /\ chatbotActor'.context.conversationHistory
                       = chatbotActor.context.conversationHistory
                  /\ chatbotActor'.accepted # chatbotActor.accepted
                       => chatbotActor'.value = "waiting_input"
           /\ (mastraChat.index > 0 /\ mastraChat'.index = mastraChat.index
                 /\ Blank(mastraChat.index))
               => /\ mastraChat'.llmCalls = mastraChat.llmCalls
                  /\ mastraChat'.conversationHistory = mastraChat.conversationHistory
                  /\ mastraChat'.state.conversationHistory
                       = mastraChat.conversationHistory
           /\ (langgraphChat.index > 0 /\ langgraphChat'.index = langgraphChat.index
                 /\ Blank(langgraphChat.index))
               => /\ langgraphChat'.llmCalls = langgraphChat.llmCalls
                  /\ langgraphChat'.conversationHistory
                       = langgraphChat.conversationHistory
                  /\ langgraphChat'.state.conversationHistory
                       = langgraphChat.conversationHistory ]_vars

\* a blank second message, taken by the XState machine after an answer
C32_Witness ==
    /\ running = {"chatbot-xstate"}
    /\ script = << <<"h", "i">>, <<" ">> >>
    /\ chatbotActor.sent = 2
    /\ chatbotActor.accepted = 2
    /\ chatbotActor.value = "waiting_input"
    /\ chatbotActor.llmCalls = 1
    /\ Len(chatbotActor.context.conversationHistory) = 2

\* the pending delayed transitions of the order machine
OrderLiveTimers == { t \in orderClock.timers : t.kind = "after" }

\* C33: the order machine (retryCount version) has at most one delayed
\* transition pending; while it is in processing_payment, on the first
\* entry and on every retry, the one pending is due PAYMENT_DELAY_MS after
\* the entry; and every entry into processing_payment but a pending one has
\* produced exactly one transition to paid or to payment_failed.
C33_OneLiveTimer ==
    "xstate-order-script" \in running =>
      /\ Cardinality(OrderLiveTimers) <= 1
      /\ (orderActor.status = "active" /\ orderActor.value = "processing_payment")
           => OrderLiveTimers =
                {[due |-> orderClock.now + PAYMENT_DELAY_MS, kind |-> "after"]}
      /\ (orderActor.status = "active" /\ orderActor.value \notin OrderDelayed)
           => OrderLiveTimers = {}
      /\ orderClock.results =
           orderActor.attempts - (IF orderActor.value = "processing_payment" THEN 1 ELSE 0)

\* the payment timer armed by the second retry
C33_Witness ==
    /\ "xstate-order-script" \in running
    /\ orderActor.value = "processing_payment"
    /\ orderActor.attempts = 3
    /\ orderClock.results = 2
    /\ OrderLiveTimers = {[due |-> 7000, kind |-> "after"]}

(***************************************************************************)
(* C34  LangGraph order workflow: routing and termination                  *)
(***************************************************************************)
\* a step in which process_payment ran
LgPaymentRan == langgraphOrder'.attempts = langgraphOrder.attempts + 1

\* the node the conditional edge chose is the one the claim names
C34_Routing ==
    LgPaymentRan =>
      LET status == langgraphOrder'.state.orderStatus
          retries == langgraphOrder'.state.retryCount
          node == langgraphOrder'.node
      IN  /\ node = "process_payment" <=>
                (status = "pending" /\ retries < MAX_PAYMENT_RETRIES)
          /\ node = "__end__" <=>
                (status = "pending" /\ retries >= MAX_PAYMENT_RETRIES)
          /\ node = "ship_order" <=> status # "pending"
          /\ status = "pending" <=> ~outcomes[langgraphOrder'.attempts]
          /\ retries = Cardinality({ i \in 1..langgraphOrder'.attempts :
                                       ~outcomes[i] })

\* C34: in the LangGraph order workflow the graph reaches END for every
\* sequence of payment outcomes, process_payment runs at most
\* MAX_PAYMENT_RETRIES (3) times, and after process_payment the conditional
\* edge leads to process_payment iff orderStatus is pending and retryCount
\* is below 3, to END iff orderStatus is pending and retryCount is 3 or
\* more, and to ship_order otherwise.
C34_LanggraphOrderTerminates ==
    /\ [](langgraphOrder.attempts <= MAX_PAYMENT_RETRIES)
    /\ [][C34_Routing]_vars
    /\ <>[](langgraphOrder.node = "__end__")

C34_Witness ==
    /\ "langgraph-order" \in running
    /\ langgraphOrder.node = "__end__"
    /\ langgraphOrder.attempts = MAX_PAYMENT_RETRIES
    /\ langgraphOrder.state.orderStatus = "pending"
    /\ langgraphOrder.state.retryCount = MAX_PAYMENT_RETRIES

(***************************************************************************)
(* C35  musicPlayerMachine: no history                                     *)
(***************************************************************************)
\* the active actor has just taken an event that led it from outside
\* `node` into `node`
PlayerEntered(node) ==
    LET n == Len(node)
        In(value) == Len(value) >= n /\ SubSeq(value, 1, n) = node
    IN  /\ playerActor.status = "active"
        /\ playerActor.events > 0
        /\ ~In(playerActor.before)
        /\ In(playerActor.value)

\* C35: the music player keeps no history: every entry into powerOn.playing
\* (PLAY from stopped or from paused) starts in playing.normal whatever
\* mode was active before PAUSE or STOP, and every entry into powerOn
\* starts in powerOn.stopped whatever sub-state was active before
\* POWER_OFF.
C35_NoHistory ==
    /\ PlayerEntered(<<"powerOn", "playing">>) =>
          /\ playerActor.last = "PLAY"
          /\ playerActor.before \in {<<"powerOn", "stopped">>, <<"powerOn", "paused">>}
          /\ playerActor.value = <<"powerOn", "playing", "normal">>
    /\ PlayerEntered(<<"powerOn">>) =>
          /\ playerActor.last = "POWER_ON"
          /\ playerActor.before = <<"powerOff">>
          /\ playerActor.value = <<"powerOn", "stopped">>

C35_Witness ==
    /\ "hierarchical-states" \in running
    /\ PlayerEntered(<<"powerOn", "playing">>)
    /\ playerActor.before = <<"powerOn", "paused">>
    /\ playerActor.mode = "shuffle"
    /\ playerActor.child = "paused"
    /\ playerActor.value = <<"powerOn", "playing", "normal">>

(***************************************************************************)
(* C36  the chatbots: integrity of conversationHistory                     *)
(***************************************************************************)
\* `after` is `before` with one user entry and one assistant entry appended
GrewByExchange(before, after) ==
    /\ Len(after) = Len(before) + 2
    /\ SubSeq(after, 1, Len(before)) = before
    /\ after[Len(before) + 1].role = "user"
    /\ after[Len(before) + 2].role = "assistant"

\* user and assistant entries alternate, and there are as many of each
Alternating(history) ==
    /\ Len(history) % 2 = 0
    /\ \A i \in 1..Len(history) :
          history[i].role = IF i % 2 = 1 THEN "user" ELSE "assistant"

\* the histories of the three chatbots: the context of the machine, the
\* state of the workflow run and of the graph invocation, and the variables
\* of the two drivers
Histories ==
    << chatbotActor.context.conversationHistory,
       mastraChat.state.conversationHistory,
       langgraphChat.state.conversationHistory,
       mastraChat.conversationHistory,
       langgraphChat.conversationHistory >>

\* a step in which a call of the LLM succeeds
ChatbotCallSucceeds ==
    /\ chatbotActor.status = "active"
    /\ chatbotActor.inflight /\ ~chatbotActor'.inflight
    /\ outcomes[chatbotActor.llmCalls]

MastraCallSucceeds ==
    /\ mastraChat.pc = "call-llm:await"
    /\ outcomes[mastraChat.llmCalls]

LgCallSucceeds ==
    /\ langgraphChat.node = "call_llm:await"
    /\ outcomes[langgraphChat.llmCalls]

\* a step of the Mastra or the LangGraph chatbot leaves the histories as
\* they are, or a successful call appends one exchange to the history of
\* the run, or the driver takes over the history of a successful run
WorkflowHistorySteps ==
    /\ Histories'[2] # Histories[2] =>
          /\ MastraCallSucceeds
          /\ GrewByExchange(Histories[2], Histories'[2])
    /\ Histories'[3] # Histories[3] =>
          /\ LgCallSucceeds
          /\ GrewByExchange(Histories[3], Histories'[3])
    /\ Histories'[4] # Histories[4] =>
          /\ mastraChat.state.status = "success"
          /\ Histories'[4] = Histories[2]
          /\ GrewByExchange(Histories[4], Histories'[4])
    /\ Histories'[5] # Histories[5] =>
          /\ langgraphChat'.state.status = "success"
          /\ Histories'[5] = Histories'[3]
          /\ GrewByExchange(Histories[5], Histories'[5])

\* C36, as claimed: in all three chatbots conversationHistory changes only
\* when an LLM call succeeds, and then grows by exactly one user entry
\* followed by one assistant entry; failed attempts and retries never
\* append or duplicate the user message, so the history always has even
\* length with alternating user and assistant roles.
C36_HistoryOnlyGrows ==
    [][ /\ Histories'[1] # Histories[1] =>
              /\ ChatbotCallSucceeds
              /\ GrewByExchange(Histories[1], Histories'[1])
        /\ WorkflowHistorySteps
        /\ \A i \in 1..5 : Alternating(Histories'[i]) ]_vars

\* C36, amended: conversationHistory changes only when an LLM call succeeds,
\* and then grows by exactly one user entry followed by one assistant
\* entry, or when the XState chatbot takes RESET in response_ready, which
\* empties it; failed attempts and retries never append or duplicate the
\* user message, and the history always has even length with alternating
\* user and assistant roles.
C36_HistoryGrowsOrResets ==
    [][ /\ Histories'[1] # Histories[1] =>
              \/ /\ ChatbotCallSucceeds
                 /\ GrewByExchange(Histories[1], Histories'[1])
              \/ /\ chatbotActor.status = "active"
                 /\ chatbotActor.value = "response_ready"
                 /\ chatbotActor'.value = "waiting_input"
                 /\ chatbotActor'.context = ChatbotResetContext
        /\ WorkflowHistorySteps
        /\ \A i \in 1..5 : Alternating(Histories'[i]) ]_vars

C36_Witness ==
    /\ "chatbot-xstate" \in running
    /\ chatbotActor.value = "response_ready"
    /\ chatbotActor.calls = 3
    /\ chatbotActor.llmCalls = 4
    /\ ~outcomes[2] /\ ~outcomes[3]
    /\ Len(chatbotActor.context.conversationHistory) = 4
    /\ chatbotActor.context.conversationHistory[3].content
          = chatbotActor.context.userMessage

(***************************************************************************)
(* C37  fetchMachine, chatMachine, chatbotMachine: one call in flight      *)
(***************************************************************************)
\* a step of a chat actor in which it starts an invocation, leaves
\* calling_llm, or has a completion delivered; `done` is the target of
\* onDone
ChatCallStep(actor, after, done) ==
    /\ after.llmCalls # actor.llmCalls =>
          /\ ~actor.inflight /\ actor.value # "calling_llm"
          /\ after.llmCalls = actor.llmCalls + 1
          /\ after.inflight /\ after.value = "calling_llm"
    /\ actor.value = "calling_llm" /\ after.value # "calling_llm" =>
          /\ actor.status = "active" /\ actor.inflight /\ ~after.inflight
          /\ after.llmCalls = actor.llmCalls
          /\ after.value = IF outcomes[actor.llmCalls] THEN done ELSE "error"
    /\ actor.inflight /\ ~after.inflight /\ actor.status = "active" =>
          actor.value = "calling_llm" /\ after.value # "calling_llm"

\* a running chat actor is in calling_llm exactly while its call is pending
ChatCallPending(actor) ==
    /\ actor.inflight => actor.value = "calling_llm"
    /\ actor.status = "active" /\ actor.value = "calling_llm" => actor.inflight

\* C37: every actor has at most one asynchronous call in flight: loading
\* (fetch machine) and calling_llm (chat machines) take no event and are
\* left only when the invoked promise settles, so no second invocation is
\* started while one is pending, and the completion of an invocation is
\* processed once, in the state that started it.
C37_OneCallInFlight ==
    [][ /\ fetchActor'.calls # fetchActor.calls =>
              /\ fetchActor.value # "loading"
              /\ fetchActor'.calls = fetchActor.calls + 1
              /\ fetchActor'.value = "loading"
        /\ fetchActor.value = "loading" /\ fetchActor'.value # "loading" =>
              /\ fetchActor.status = "active"
              /\ fetchActor'.calls = fetchActor.calls
              /\ fetchActor'.value = IF outcomes[fetchActor.calls]
                                      THEN "success" ELSE "failure"
        /\ ChatCallStep(chatActor, chatActor', "success")
        /\ ChatCallStep(chatbotActor, chatbotActor', "response_ready")
        /\ ChatCallPending(chatActor')
        /\ ChatCallPending(chatbotActor') ]_vars

C37_Witness ==
    /\ "chatbot-xstate" \in running
    /\ chatbotActor.status = "active"
    /\ chatbotActor.value = "calling_llm"
    /\ chatbotActor.inflight
    /\ chatbotActor.llmCalls = 3
    /\ chatbotActor.accepted = 2
    /\ chatbotActor.calls = 1

(***************************************************************************)
(* C38  the order workflows: no shipment without payment                   *)
(***************************************************************************)
Shipped == {"shipping", "delivered"}

\* the last of `attempts` payment attempts succeeded
PaidAt(attempts) == attempts \in 1..Len(outcomes) /\ outcomes[attempts]

\* the retries are exhausted: MAX_PAYMENT_RETRIES attempts were made and
\* all of them failed
Exhausted(attempts) ==
    /\ attempts >= MAX_PAYMENT_RETRIES
    /\ \A i \in 1..MAX_PAYMENT_RETRIES : ~outcomes[i]

\* an order is shipping or delivered only if its last payment attempt
\* succeeded, and never once its retries are exhausted
C38_PaidBeforeShipped ==
    /\ ( orderActor.value \in Shipped \/ orderActor.context.orderStatus \in Shipped ) =>
          PaidAt(orderActor.attempts) /\ ~Exhausted(orderActor.attempts)
    /\ mastraOrder.state.orderStatus \in Shipped =>
          PaidAt(mastraOrder.attempts) /\ ~Exhausted(mastraOrder.attempts)
    /\ ( langgraphOrder.state.orderStatus \in Shipped
          \/ langgraphOrder.node \in {"ship_order", "deliver_order"} ) =>
          PaidAt(langgraphOrder.attempts) /\ ~Exhausted(langgraphOrder.attempts)
    /\ orderActor.attempts > 0 => orderActor.value # "pending"

\* shipping follows paid and delivered follows shipping; the XState machine
\* enters processing_payment from confirmed (PROCESS_PAYMENT) or from
\* payment_failed (the retry), and confirmed from pending (CONFIRM_ORDER)
C38_Steps ==
    /\ \A s \in { <<orderActor.context.orderStatus, orderActor'.context.orderStatus>>,
                   <<orderActor.value, orderActor'.value>>,
                   <<mastraOrder.state.orderStatus, mastraOrder'.state.orderStatus>>,
                   <<langgraphOrder.state.orderStatus, langgraphOrder'.state.orderStatus>> } :
          /\ s[2] = "shipping" /\ s[1] # s[2] => s[1] = "paid"
          /\ s[2] = "delivered" /\ s[1] # s[2] => s[1] = "shipping"
    /\ orderActor'.attempts # orderActor.attempts =>
          /\ orderActor.value \in {"confirmed", "payment_failed"}
          /\ orderActor.value = "confirmed" <=> orderActor.attempts = 0
    /\ orderActor'.value = "confirmed" /\ orderActor.value # "confirmed" =>
          orderActor.value = "pending"

\* C38: in every order workflow (XState, Mastra, LangGraph) the statuses
\* shipping and delivered are reached only after a payment attempt
\* succeeded (status paid), an order whose retries were exhausted is never
\* shipped or delivered, and the XState machine accepts PROCESS_PAYMENT
\* only after CONFIRM_ORDER.
C38_NoShipmentWithoutPayment ==
    /\ []C38_PaidBeforeShipped
    /\ [][C38_Steps]_vars

C38_Witness ==
    /\ running = {"xstate-order", "mastra-order", "langgraph-order"}
    /\ ~outcomes[1] /\ ~outcomes[2] /\ outcomes[3]
    /\ orderActor.value = "delivered"
    /\ orderActor.context.orderStatus = "delivered"
    /\ mastraOrder.state.orderStatus = "delivered"
    /\ langgraphOrder.state.orderStatus = "delivered"

(***************************************************************************)
(* C39  orderMachine: the context agrees with the state                    *)
(***************************************************************************)
\* C39: in the XState order machine, whenever the state is
\* processing_payment, paid, shipping, delivered or canceled,
\* context.orderStatus is the name of the state, in pending it is
\* 'pending', and retryCount stays within 0..MAX_PAYMENT_RETRIES.
C39_ContextMatchesState ==
    /\ orderActor.value \in {"pending", "processing_payment", "paid",
                              "shipping", "delivered", "canceled"} =>
          orderActor.context.orderStatus = orderActor.value
    /\ orderActor.context.retryCount \in 0..MAX_PAYMENT_RETRIES

C39_Witness ==
    /\ "xstate-order" \in running
    /\ orderActor.value = "processing_payment"
    /\ orderActor.context = [orderStatus |-> "processing_payment", retryCount |-> 2]
    /\ orderActor.attempts = 3
====
